---- MODULE Spec2Model ----
(***************************************************************************)
(* Token-bounded hierarchical chunker of                                   *)
(* genon/preprocessor/facade/intelligent_processor_law.py:                 *)
(* HierarchicalChunker.chunk (the flattener) followed by                   *)
(* HybridChunker._split_document_by_tokens (segmenter, section rendering,  *)
(* orphan-heading merger, packer).                                         *)
(*                                                                         *)
(* Spec: the chunker step by step.  SpecCall: DocumentProcessor.__call__   *)
(* of the same file on one processor instance serving requests in turn.    *)
(* SpecChat: DocumentProcessor.__call__ of                                 *)
(* doc_preprocessors/삼성증권/채팅_범용에이전트.py (PDF and DOC files), the  *)
(* calls of several requests interleaved at their awaits.  SpecCount:      *)
(* HybridChunker._count_tokens with a tokenizer that may fail.             *)
(* SpecTwice: chunk() of the first file called again and again on one      *)
(* chunker.  SpecOcr: DocumentProcessor.__call__ of                        *)
(* doc_preprocessors/삼성증권/문서생성_범용에이전트_ocr.py with its          *)
(* processors for images, docx and pdf.  SpecFirst: HybridChunker.chunk of *)
(* the chat agent: the inner chunker, the split by doc items, the split    *)
(* of the plain text and the merge of peers.                               *)
(*                                                                         *)
(* A Python str is a sequence of one-character strings, a dict is a        *)
(* function whose domain is its key set, a list is a sequence.             *)
(***************************************************************************)
EXTENDS Integers, Sequences, FiniteSets, TLC

\* ------------------------------------------------------------------ bounds
\* Nodes that dl_doc.iterate_items() yields for one document.
MaxItems == 3
\* Tables of dl_doc.tables that iterate_items() never yields.
MaxMissing == 2

\* Pages a provenance record can name.
MaxPage == 2
\* Calls one processor instance serves (one after the other, or two at a time).
MaxRequests == 2
\* Lines of the text given to _count_tokens.
MaxLines == 3
\* Nodes of a document given to DocumentProcessor.__call__.
MaxCallItems == 2
\* Documents the loader of the chat agent returns for one file.
MaxChatDocs == 2

\* ------------------------------------------------------- program constants
\* _count_tokens: max_chunk_length
max_chunk_length == 300
\* _split_document_by_tokens, step 3: len(item_text) > 30
OrphanTextLimit == 30
\* split_documents: HybridChunker(max_tokens=1000, ...)
SplitMaxTokens == 1000

\* -------------------------------------------------------------------- dicts
EmptyDict == [l \in {} |-> << >>]
DictSet(d, k, v) == [x \in (DOMAIN d) \cup {k} |-> IF x = k THEN v ELSE d[x]]
\* pop every key greater than k
DictPopAbove(d, k) == [x \in {y \in DOMAIN d : y <= k} |-> d[x]]
MaxOf(S) == CHOOSE m \in S : \A x \in S : x <= m
MinOf(S) == CHOOSE m \in S : \A x \in S : m <= x

RECURSIVE SortedSeq(_)
\* sorted(S) of a set of integers
SortedSeq(S) ==
    IF S = {} THEN << >> ELSE << MinOf(S) >> \o SortedSeq(S \ {MinOf(S)})

\* ------------------------------------------------------------------ strings
Repeat(c, n) == [i \in 1..n |-> c]

RECURSIVE Join(_, _)
\* sep.join(parts)
Join(parts, sep) ==
    IF Len(parts) = 0 THEN << >>
    ELSE IF Len(parts) = 1 THEN parts[1]
    ELSE parts[1] \o sep \o Join(Tail(parts), sep)

\* s.split(c) for a one-character separator c: the pieces between its occurrences
Split(s, c) ==
    LET cuts == << 0 >> \o SortedSeq({i \in 1..Len(s) : s[i] = c}) \o << Len(s) + 1 >>
    IN  [j \in 1..(Len(cuts) - 1) |-> SubSeq(s, cuts[j] + 1, cuts[j + 1] - 1)]

IsSpace(c) == c \in {" ", "\n"}

\* len(s.split()): the number of maximal runs of non-whitespace characters
Words(s) ==
    Cardinality({i \in 1..Len(s) : ~IsSpace(s[i]) /\ (i = 1 \/ IsSpace(s[i - 1]))})

\* x in parts
InList(x, parts) == \E i \in 1..Len(parts) : parts[i] = x

NL == << "\n" >>
CommaSpace == << ",", " " >>

\* ----------------------------------------------------------- document items
\* The kinds of node iterate_items() yields: a TextItem labelled TITLE, a
\* SectionHeaderItem (levels 1 to 3), a plain TextItem, a ListItem, a TableItem,
\* a PictureItem (it has no text attribute) and a group node (not a DocItem).
\* A table's text field is what _extract_table_text obtains for it.
Palette ==
    << [kind |-> "title",          level |-> 0, text |-> << "T" >>,            orig |-> << "t" >>],
       [kind |-> "section_header", level |-> 1, text |-> << "A" >>,            orig |-> << "A" >>],
       [kind |-> "section_header", level |-> 2, text |-> << "B" >>,            orig |-> << "B" >>],
       [kind |-> "section_header", level |-> 3, text |-> << "C" >>,            orig |-> << "C" >>],
       [kind |-> "section_header", level |-> 1, text |-> Repeat("h", OrphanTextLimit),
                                                 orig |-> Repeat("h", OrphanTextLimit)],
       [kind |-> "section_header", level |-> 2, text |-> Repeat("g", OrphanTextLimit + 1),
                                                 orig |-> Repeat("g", OrphanTextLimit + 1)],
       [kind |-> "text",           level |-> 0, text |-> << "w", " ", "w" >>,  orig |-> << "w", " ", "w" >>],
       [kind |-> "list_item",      level |-> 0, text |-> << "l" >>,            orig |-> << "l" >>],
       [kind |-> "table",          level |-> 0, text |-> << "c", " ", "d" >>,  orig |-> << >>],
       [kind |-> "picture",        level |-> 0, text |-> << >>,                orig |-> << >>],
       [kind |-> "group",          level |-> 0, text |-> << >>,                orig |-> << >>] >>

MissingTable == [kind |-> "table", level |-> 0, text |-> << "m" >>, orig |-> << >>]

\* The node with its self_ref
MkItem(ref, p) ==
    [self_ref |-> ref, kind |-> p.kind, level |-> p.level, text |-> p.text, orig |-> p.orig]

\* HybridChunker.max_tokens values explored: a tight budget and a generous one
TokenBudgets == {3, 40}

\* A document: body is the order of iterate_items(); tables is dl_doc.tables,
\* the tables the traversal misses (self_ref above MaxItems) and the ones it yields.
Body(f) ==
    IF DOMAIN f = {} THEN << >>
    ELSE [i \in 1..Cardinality(DOMAIN f) |-> MkItem(i, Palette[f[i]])]

IsTable(it) == it.kind = "table"

Documents ==
    { [body   |-> Body(f),
       tables |-> [j \in 1..m |-> MkItem(MaxItems + j, MissingTable)]
                  \o SelectSeq(Body(f), IsTable)] :
        f \in UNION {[1..n -> 1..Len(Palette)] : n \in 0..MaxItems}, m \in 0..MaxMissing }

VARIABLES
    dl_doc,                         \* the document being chunked
    merge_list_items,               \* HierarchicalChunker.merge_list_items
    max_tokens,                     \* HybridChunker.max_tokens
    pc,                             \* position in HybridChunker.chunk
    pos,                            \* next node of iterate_items()
    all_items,                      \* HierarchicalChunker.chunk locals
    all_header_info,
    all_header_short_info,
    current_heading_by_level,
    current_heading_short_by_level,
    list_items,
    processed_refs,
    sections,                       \* _split_document_by_tokens locals
    sections_with_text,
    scan_i,                         \* loop index of step 3
    pack_k,                         \* loop index of step 4
    merged_texts,
    merged_items,
    merged_header_infos,
    merged_header_short_infos,
    merged_alias,                   \* index of the section whose lists merged_* share, 0: own lists
    result_chunks,
    page_chunk_counts,              \* DocumentProcessor.page_chunk_counts (law)
    served,                         \* calls the processor instance has finished
    call_pc,                        \* position in DocumentProcessor.__call__ (law)
    request_disconnected,           \* request.is_disconnected() of the call
    document,                       \* __call__ locals
    chunks,
    vectors,
    chat_page_chunk_counts,         \* DocumentProcessor.page_chunk_counts (chat agent)
    chat_pc,                        \* per request: position in __call__ (chat agent)
    chat_disconnected,              \* per request: request.is_disconnected()
    chat_documents,                 \* per request: __call__ locals
    chat_chunks,
    chat_vectors,
    tok_text,                       \* _count_tokens: argument text and locals
    tok_pc,
    tok_line_i,
    tok_current_chunk,
    tok_total_tokens,
    tokenized,                      \* the calls of self._tokenizer.tokenize so far
    runs,                           \* the calls of HybridChunker.chunk that returned
    ocr_page_chunk_counts,          \* DocumentProcessor.page_chunk_counts (document agent)
    docx_page_chunk_counts,         \* its DocxProcessor.page_chunk_counts
    pdf_page_chunk_counts,          \* its PdfImageProcessor.page_chunk_counts
    ocr_pc,                         \* position in DocumentProcessor.__call__ (document agent)
    ocr_ext,                        \* __call__ locals
    ocr_chunks,
    ocr_vectors,
    ocr_served,                     \* calls the document agent has finished
    first_doc,                      \* chat agent chunker: the document being chunked
    first_merge_list_items,         \* its HierarchicalChunker.merge_list_items
    first_max_tokens,               \* its HybridChunker.max_tokens
    merge_peers,                    \* its HybridChunker.merge_peers
    first_pc,                       \* position in its HybridChunker.chunk
    first_pos,                      \* next node of iterate_items()
    heading_by_level,               \* HierarchicalChunker.chunk locals
    first_list_items,
    first_res,                      \* HybridChunker.chunk: res, the list being refined
    next_res,                       \* the list the running comprehension builds
    split_i,                        \* the chunk of res the comprehension is at
    window_start,                   \* locals of _split_by_doc_items and of
    window_end,                     \* _merge_chunks_with_matching_metadata
    split_chunks,                   \* _split_by_doc_items: chunks
    output_chunks,                  \* _merge_chunks_with_matching_metadata locals
    first_chunk_of_window,
    new_chunk,
    current_headings_and_captions

flat_vars == << pos, all_items, all_header_info, all_header_short_info,
                current_heading_by_level, current_heading_short_by_level,
                list_items, processed_refs >>
split_vars == << sections, sections_with_text, scan_i >>
pack_vars == << pack_k, merged_texts, merged_items, merged_header_infos,
                merged_header_short_infos, merged_alias, result_chunks >>
conf_vars == << dl_doc, merge_list_items, max_tokens >>
chunker_vars == << conf_vars, pc, flat_vars, split_vars, pack_vars >>
processor_vars == << page_chunk_counts, served, call_pc, request_disconnected,
                     document, chunks, vectors >>
chat_vars == << chat_page_chunk_counts, chat_pc, chat_disconnected, chat_documents,
                chat_chunks, chat_vectors >>
counter_vars == << tok_text, tok_pc, tok_line_i, tok_current_chunk, tok_total_tokens,
                   tokenized >>
twice_vars == << runs >>
ocr_vars == << ocr_page_chunk_counts, docx_page_chunk_counts, pdf_page_chunk_counts,
               ocr_pc, ocr_ext, ocr_chunks, ocr_vectors, ocr_served >>
first_conf_vars == << first_doc, first_merge_list_items, first_max_tokens, merge_peers >>
inner_vars == << first_pos, heading_by_level, first_list_items >>
window_vars == << window_start, window_end >>
peer_vars == << output_chunks, first_chunk_of_window, new_chunk,
                current_headings_and_captions >>
first_vars == << first_conf_vars, first_pc, inner_vars, first_res, next_res, split_i,
                 window_vars, split_chunks, peer_vars >>
later_vars == << twice_vars, ocr_vars, first_vars >>
\* everything outside HybridChunker.chunk and the document agent
service_less_ocr == << processor_vars, chat_vars, counter_vars, twice_vars, first_vars >>
\* everything outside HybridChunker.chunk and the chunker of the chat agent
service_less_first == << processor_vars, chat_vars, counter_vars, twice_vars, ocr_vars >>
\* everything outside HybridChunker.chunk
service_vars == << processor_vars, chat_vars, counter_vars, later_vars >>
vars == << chunker_vars, service_vars >>

Pages == 1..MaxPage
Requests == 1..MaxRequests

\* defaultdict(int): every page counts 0 until it is incremented
NoCounts == [p \in Pages |-> 0]

\* no DocumentProcessor of intelligent_processor_law.py is at work
ProcessorIdle ==
    /\ page_chunk_counts = NoCounts
    /\ served = 0
    /\ call_pc = "idle"
    /\ request_disconnected = FALSE
    /\ document = << >>
    /\ chunks = << >>
    /\ vectors = << >>

\* no DocumentProcessor of the chat agent is at work
ChatIdle ==
    /\ chat_page_chunk_counts = NoCounts
    /\ chat_pc = [r \in Requests |-> "idle"]
    /\ chat_disconnected = [r \in Requests |-> FALSE]
    /\ chat_documents = [r \in Requests |-> << >>]
    /\ chat_chunks = [r \in Requests |-> << >>]
    /\ chat_vectors = [r \in Requests |-> << >>]

\* no call of _count_tokens is watched
CounterIdle ==
    /\ tok_text = << >>
    /\ tok_pc = "idle"
    /\ tok_line_i = 0
    /\ tok_current_chunk = << >>
    /\ tok_total_tokens = 0
    /\ tokenized = << >>

\* no earlier call of HybridChunker.chunk is remembered
NoRuns ==
    /\ runs = << >>

\* no DocumentProcessor of the document agent is at work
OcrIdle ==
    /\ ocr_page_chunk_counts = NoCounts
    /\ docx_page_chunk_counts = NoCounts
    /\ pdf_page_chunk_counts = NoCounts
    /\ ocr_pc = "idle"
    /\ ocr_ext = ""
    /\ ocr_chunks = << >>
    /\ ocr_vectors = << >>
    /\ ocr_served = 0

\* a chunk that is not there (None)
NoChunk == [text |-> << >>, doc_items |-> << >>, headings |-> << >>, captions |-> << >>]

\* HybridChunker.chunk of the chat agent is at rest
FirstIdle ==
    /\ first_doc = << >>
    /\ first_merge_list_items = TRUE
    /\ first_max_tokens = 0
    /\ merge_peers = TRUE
    /\ first_pc = "idle"
    /\ first_pos = 1
    /\ heading_by_level = << >>
    /\ first_list_items = << >>
    /\ first_res = << >>
    /\ next_res = << >>
    /\ split_i = 1
    /\ window_start = 0
    /\ window_end = 0
    /\ split_chunks = << >>
    /\ output_chunks = << >>
    /\ first_chunk_of_window = NoChunk
    /\ new_chunk = NoChunk
    /\ current_headings_and_captions = << << >>, << >> >>

LaterIdle ==
    /\ NoRuns
    /\ OcrIdle
    /\ FirstIdle

Init ==
    /\ ProcessorIdle
    /\ ChatIdle
    /\ CounterIdle
    /\ LaterIdle
    /\ dl_doc \in Documents
    /\ merge_list_items \in BOOLEAN
    /\ max_tokens \in TokenBudgets
    /\ pc = "iterate"
    /\ pos = 1
    /\ all_items = << >>
    /\ all_header_info = << >>
    /\ all_header_short_info = << >>
    /\ current_heading_by_level = EmptyDict
    /\ current_heading_short_by_level = EmptyDict
    /\ list_items = << >>
    /\ processed_refs = {}
    /\ sections = << >>
    /\ sections_with_text = << >>
    /\ scan_i = 0
    /\ pack_k = 0
    /\ merged_texts = << >>
    /\ merged_items = << >>
    /\ merged_header_infos = << >>
    /\ merged_header_short_infos = << >>
    /\ merged_alias = 0
    /\ result_chunks = << >>

\* ------------------------------------------------ HierarchicalChunker.chunk
\* is_section_header with the TITLE label forgotten
is_section_header_no_title(item) == item.kind = "section_header"

\* _is_section_header, and the same test in HierarchicalChunker.chunk
is_section_header(item) == item.kind \in {"title", "section_header"}

\* header_level of a heading: item.level of a SectionHeaderItem, 0 for a TITLE
\* (a TextItem labelled SECTION_HEADER would be 1; no such node is modelled)
header_level(item) == IF item.kind = "section_header" THEN item.level ELSE 0

\* HeadingUpdate without the removal of the deeper levels
HeadingUpdate_keep_deeper(current, level, text) == DictSet(current, level, text)

\* current_heading_by_level after visiting a heading: set the level, drop the deeper ones
HeadingUpdate(current, level, text) == DictPopAbove(DictSet(current, level, text), level)

\* n copies of the snapshot d
Copies(d, n) == [i \in 1..n |-> d]

\* One iteration of `for item, level in dl_doc.iterate_items(...)`
IterateItem ==
    /\ pc = "iterate"
    /\ pos <= Len(dl_doc.body)
    /\ LET item == dl_doc.body[pos]
           buffering == merge_list_items /\ item.kind = "list_item"
           flush == merge_list_items /\ ~buffering /\ list_items # << >>
           items0 == IF flush THEN all_items \o list_items ELSE all_items
           info0 == IF flush
                    THEN all_header_info \o Copies(current_heading_by_level, Len(list_items))
                    ELSE all_header_info
           short0 == IF flush
                     THEN all_header_short_info
                          \o Copies(current_heading_short_by_level, Len(list_items))
                     ELSE all_header_short_info
           lvl == header_level(item)
           cur1 == HeadingUpdate(current_heading_by_level, lvl, item.text)
           curs1 == HeadingUpdate(current_heading_short_by_level, lvl, item.orig)
       IN  /\ processed_refs' = processed_refs \cup {item.self_ref}
           /\ IF item.kind = "group"
              THEN UNCHANGED << all_items, all_header_info, all_header_short_info,
                                current_heading_by_level, current_heading_short_by_level,
                                list_items >>
              ELSE IF buffering
              THEN /\ list_items' = Append(list_items, item)
                   /\ UNCHANGED << all_items, all_header_info, all_header_short_info,
                                   current_heading_by_level, current_heading_short_by_level >>
              ELSE IF is_section_header(item)
              THEN /\ list_items' = IF flush THEN << >> ELSE list_items
                   /\ current_heading_by_level' = cur1
                   /\ current_heading_short_by_level' = curs1
                   /\ all_items' = Append(items0, item)
                   /\ all_header_info' = Append(info0, cur1)
                   /\ all_header_short_info' = Append(short0, curs1)
              ELSE /\ list_items' = IF flush THEN << >> ELSE list_items
                   /\ all_items' = Append(items0, item)
                   /\ all_header_info' = Append(info0, current_heading_by_level)
                   /\ all_header_short_info' = Append(short0, current_heading_short_by_level)
                   /\ UNCHANGED << current_heading_by_level, current_heading_short_by_level >>
    /\ pos' = pos + 1
    /\ UNCHANGED << conf_vars, pc, split_vars, pack_vars >>
    /\ UNCHANGED service_vars

\* the tables of dl_doc.tables whose self_ref was never yielded, in registry order
missing_tables(tables, refs) ==
    SelectSeq(tables, LAMBDA t : t.self_ref \notin refs)

\* InsertFront appending instead of inserting at index 0
InsertFront_append(lst, xs) == lst \o xs

RECURSIVE InsertFront(_, _)
\* `for x in xs: lst.insert(0, x)`
InsertFront(lst, xs) ==
    IF xs = << >> THEN lst ELSE InsertFront(<< xs[1] >> \o lst, Tail(xs))

\* After the traversal: the buffered list items, the missing tables, the yield.
FinishTraversal ==
    /\ pc = "iterate"
    /\ pos > Len(dl_doc.body)
    /\ LET n == Len(list_items)
           miss == missing_tables(dl_doc.tables, processed_refs)
           items1 == InsertFront(all_items \o list_items, miss)
       IN  /\ all_items' = items1
           /\ all_header_info' =
                  InsertFront(all_header_info \o Copies(current_heading_by_level, n),
                              Copies(EmptyDict, Len(miss)))
           /\ all_header_short_info' =
                  InsertFront(all_header_short_info
                                  \o Copies(current_heading_short_by_level, n),
                              Copies(EmptyDict, Len(miss)))
           /\ pc' = IF items1 = << >> THEN "done" ELSE "segment"
    /\ UNCHANGED << conf_vars, pos, current_heading_by_level,
                    current_heading_short_by_level, list_items, processed_refs,
                    split_vars, pack_vars >>
    /\ UNCHANGED service_vars

\* ------------------------------------------------------------ HybridChunker
\* self._tokenizer.tokenize(buf): the tokenizer is a collaborator; here one token
\* per whitespace-separated word
Tokenize(buf) == Words(buf)

RECURSIVE CountLines(_, _, _, _)
\* the loop of _count_tokens over lines[i..], current_chunk and total_tokens
CountLines(lines, i, current_chunk, total_tokens) ==
    IF i > Len(lines)
    THEN IF current_chunk # << >> THEN total_tokens + Tokenize(current_chunk)
         ELSE total_tokens
    ELSE LET line == lines[i]
             temp_chunk == IF current_chunk # << >> THEN current_chunk \o NL \o line
                           ELSE line
         IN  IF Len(temp_chunk) <= max_chunk_length
             THEN CountLines(lines, i + 1, temp_chunk, total_tokens)
             ELSE CountLines(lines, i + 1, line,
                             IF current_chunk # << >>
                             THEN total_tokens + Tokenize(current_chunk)
                             ELSE total_tokens)

\* _count_tokens
count_tokens(text) ==
    IF text = << >> THEN 0 ELSE CountLines(Split(text, "\n"), 1, << >>, 0)

\* _extract_table_text: the rendering the table item carries
extract_table_text(item) == item.text

\* hasattr(item, 'text'): every DocItem modelled but the picture
has_text(item) == item.kind \in {"title", "section_header", "text", "list_item"}

\* headers_to_add of _generate_text_from_items_with_headers: for the first level
\* (ascending) that is new or changed, the headers above it and an empty entry
headers_to_add(item_headers, current) ==
    LET changed == {l \in DOMAIN item_headers :
                        l \notin DOMAIN current \/ current[l] # item_headers[l]}
    IN  IF changed = {} THEN << >>
        ELSE LET below == SortedSeq({l \in DOMAIN item_headers : l < MinOf(changed)})
             IN  [j \in 1..Len(below) |-> item_headers[below[j]]] \o << << >> >>

\* the text_parts after the item: a table's text always, another item's text
\* unless it is already among the parts, an empty part for a picture
item_text_part(item, text_parts) ==
    IF item.kind = "table"
    THEN IF extract_table_text(item) # << >>
         THEN Append(text_parts, extract_table_text(item)) ELSE text_parts
    ELSE IF has_text(item) /\ item.text # << >>
    THEN IF ~InList(item.text, text_parts) THEN Append(text_parts, item.text)
         ELSE text_parts
    ELSE IF item.kind = "picture" THEN Append(text_parts, << >>)
    ELSE text_parts

RECURSIVE TextParts(_, _, _, _, _)
\* the loop of _generate_text_from_items_with_headers from item i on
TextParts(items, header_info_list, i, text_parts, current_section_headers) ==
    IF i > Len(items) THEN text_parts
    ELSE LET item_headers == IF i <= Len(header_info_list) THEN header_info_list[i]
                             ELSE EmptyDict
             hta == headers_to_add(item_headers, current_section_headers)
             header_text == Join(hta, CommaSpace)
             parts1 == IF /\ item_headers # current_section_headers
                          /\ hta # << >>
                          /\ ~InList(header_text, text_parts)
                       THEN Append(text_parts, header_text)
                       ELSE text_parts
         IN  TextParts(items, header_info_list, i + 1,
                       item_text_part(items[i], parts1), item_headers)

\* _generate_text_from_items_with_headers (self.delim is "\n")
generate_text_from_items_with_headers(items, header_info_list) ==
    Join(TextParts(items, header_info_list, 1, << >>, EmptyDict), NL)

\* _generate_section_text_with_heading
generate_section_text_with_heading(section_items, section_header_infos) ==
    LET first == IF section_header_infos # << >> THEN section_header_infos[1]
                 ELSE EmptyDict
        levels == SortedSeq({l \in DOMAIN first : first[l] # << >>})
        heading_text == Join([j \in 1..Len(levels) |-> first[levels[j]]], CommaSpace)
        section_text == generate_text_from_items_with_headers(section_items,
                                                               section_header_infos)
    IN  IF heading_text # << >> THEN heading_text \o CommaSpace \o section_text
        ELSE section_text

\* UsedHeaders reading the first snapshot only
UsedHeaders_first_snapshot(header_info_list, i, all_headers) ==
    IF i > Len(header_info_list) \/ i > 1 THEN all_headers
    ELSE LET levels == SortedSeq(DOMAIN header_info_list[i])
         IN  [j \in 1..Len(levels) |-> header_info_list[i][levels[j]]]

RECURSIVE UsedHeaders(_, _, _)
\* the loops of _extract_used_headers: infos from i on, all_headers so far
UsedHeaders(header_info_list, i, all_headers) ==
    IF i > Len(header_info_list) THEN all_headers
    ELSE LET info == header_info_list[i]
             levels == SortedSeq(DOMAIN info)
             fresh == SelectSeq([j \in 1..Len(levels) |-> info[levels[j]]],
                                LAMBDA h : h # << >> /\ ~InList(h, all_headers))
         IN  UsedHeaders(header_info_list, i + 1, all_headers \o fresh)

\* _extract_used_headers; None is the empty list (the code returns None exactly
\* when there is no header)
extract_used_headers(header_info_list) == UsedHeaders(header_info_list, 1, << >>)

\* get_header_level reading the first snapshot whatever `first` says
get_header_level_first(header_infos, first) ==
    IF header_infos = << >> THEN -1
    ELSE IF DOMAIN header_infos[1] = {} THEN -1 ELSE MaxOf(DOMAIN header_infos[1])

\* get_header_level(header_infos, first=..., default=-1)
get_header_level(header_infos, first) ==
    IF header_infos = << >> THEN -1
    ELSE LET info == IF first THEN header_infos[1] ELSE header_infos[Len(header_infos)]
         IN  IF DOMAIN info = {} THEN -1 ELSE MaxOf(DOMAIN info)

\* get_current_chunk: no chunk when merged_texts is empty, else the one chunk
get_current_chunk(texts, header_short_infos, items) ==
    IF texts = << >> THEN << >>
    ELSE << [text      |-> Join(texts, NL),
             doc_items |-> items,
             headings  |-> extract_used_headers(header_short_infos)] >>

\* A section: the tuple (items, header_infos, header_short_infos), with src the
\* index of the step 1 section whose list objects it holds (0: lists of its own)
Section(items, header_infos, header_short_infos, src) ==
    [items |-> items, header_infos |-> header_infos,
     header_short_infos |-> header_short_infos, src |-> src]

RECURSIVE SegmentFrom(_, _, _, _, _, _)
\* step 1 from item i on: the sections closed so far and the open one
SegmentFrom(items, header_info_list, header_short_info_list, i, secs, cur) ==
    IF i > Len(items)
    THEN IF cur.items # << >> THEN Append(secs, cur) ELSE secs
    ELSE LET h_info == IF i <= Len(header_info_list) THEN header_info_list[i]
                       ELSE EmptyDict
             h_short == IF i <= Len(header_short_info_list)
                        THEN header_short_info_list[i] ELSE EmptyDict
         IN  IF is_section_header(items[i])
             THEN SegmentFrom(items, header_info_list, header_short_info_list, i + 1,
                              IF cur.items # << >> THEN Append(secs, cur) ELSE secs,
                              Section(<< items[i] >>, << h_info >>, << h_short >>, 0))
             ELSE SegmentFrom(items, header_info_list, header_short_info_list, i + 1,
                              secs,
                              Section(Append(cur.items, items[i]),
                                      Append(cur.header_infos, h_info),
                                      Append(cur.header_short_infos, h_short), 0))

\* step 1: split at the section headers
segment(items, header_info_list, header_short_info_list) ==
    SegmentFrom(items, header_info_list, header_short_info_list, 1, << >>,
                Section(<< >>, << >>, << >>, 0))

SegmentSections ==
    /\ pc = "segment"
    /\ sections' = segment(all_items, all_header_info, all_header_short_info)
    /\ pc' = "render"
    /\ UNCHANGED << conf_vars, flat_vars, sections_with_text, scan_i, pack_vars >>
    /\ UNCHANGED service_vars

\* step 2: the tuple (text, items, header_infos, header_short_infos) of section j
with_text(secs, j) ==
    [text |-> generate_section_text_with_heading(secs[j].items,
                                                 secs[j].header_short_infos),
     items |-> secs[j].items,
     header_infos |-> secs[j].header_infos,
     header_short_infos |-> secs[j].header_short_infos,
     src |-> j]

\* range(len(sections_with_text) - 2, -1, -1) starts at the last but one section
\* (sections are numbered from 1 here)
first_scan_index(secs) == Len(secs) - 1

RenderSections ==
    /\ pc = "render"
    /\ sections_with_text' = [j \in 1..Len(sections) |-> with_text(sections, j)]
    /\ scan_i' = first_scan_index(sections)
    /\ pc' = IF first_scan_index(sections) >= 1 THEN "orphan" ELSE "pack"
    /\ pack_k' = 1
    /\ UNCHANGED << conf_vars, flat_vars, sections, merged_texts, merged_items,
                    merged_header_infos, merged_header_short_infos, merged_alias,
                    result_chunks >>
    /\ UNCHANGED service_vars

\* ---------------------------------------------- step 3: lone short headings
\* "".join(getattr(it, "text", "") for it in items)
item_text(items) ==
    Join([j \in 1..Len(items) |-> IF has_text(items[j]) THEN items[j].text ELSE << >>],
         << >>)

\* the section is a single section header whose text is not over the limit
is_lone_heading(sec) ==
    /\ Len(sec.items) = 1
    /\ is_section_header(sec.items[1])
    /\ ~(Len(item_text(sec.items)) > OrphanTextLimit)

\* level_forbids with <= in place of <
level_forbids_or_equal(current_level, next_level) ==
    0 <= next_level /\ next_level <= current_level

\* `if 0 <= next_level < current_level: continue`
level_forbids(current_level, next_level) ==
    0 <= next_level /\ next_level < current_level

\* section i is merged into section i + 1
folds(secs, i) ==
    /\ is_lone_heading(secs[i])
    /\ ~level_forbids(get_header_level(secs[i].header_infos, FALSE),
                      get_header_level(secs[i + 1].header_infos, TRUE))

\* fold keeping only the following section's items and snapshots
fold_drops_heading(secs, i) ==
    LET a == secs[i]
        b == secs[i + 1]
        m == [text |-> a.text \o NL \o b.text,
              items |-> b.items,
              header_infos |-> b.header_infos,
              header_short_infos |-> b.header_short_infos,
              src |-> 0]
    IN  SubSeq(secs, 1, i - 1) \o << m >> \o SubSeq(secs, i + 2, Len(secs))

\* sections_with_text[i] = (text + '\n' + n_text, items + n_items, ...);
\* sections_with_text.pop(i + 1)
fold(secs, i) ==
    LET a == secs[i]
        b == secs[i + 1]
        m == [text |-> a.text \o NL \o b.text,
              items |-> a.items \o b.items,
              header_infos |-> a.header_infos \o b.header_infos,
              header_short_infos |-> a.header_short_infos \o b.header_short_infos,
              src |-> 0]
    IN  SubSeq(secs, 1, i - 1) \o << m >> \o SubSeq(secs, i + 2, Len(secs))

\* one iteration of the loop of step 3
scan_step(secs, i) == IF folds(secs, i) THEN fold(secs, i) ELSE secs

\* the loop leaving after its first merge
next_scan_index_stop(i, folded) == IF folded THEN 0 ELSE i - 1

\* the index the loop visits after i (0: the loop is over)
next_scan_index(i, folded) == i - 1

RECURSIVE ScanFrom(_, _)
ScanFrom(secs, i) ==
    IF i < 1 THEN secs
    ELSE ScanFrom(scan_step(secs, i), next_scan_index(i, folds(secs, i)))

\* the whole of step 3 on a section list
merge_lone_headings(secs) == ScanFrom(secs, first_scan_index(secs))

ScanSection ==
    /\ pc = "orphan"
    /\ scan_i >= 1
    /\ sections_with_text' = scan_step(sections_with_text, scan_i)
    /\ scan_i' = next_scan_index(scan_i, folds(sections_with_text, scan_i))
    /\ pc' = IF next_scan_index(scan_i, folds(sections_with_text, scan_i)) >= 1
             THEN "orphan" ELSE "pack"
    /\ UNCHANGED << conf_vars, flat_vars, sections, pack_vars >>
    /\ UNCHANGED service_vars

\* ------------------------------------------------------- step 4: the packer
\* b_new_chunk without the level test
b_new_chunk_tokens_only(test_tokens, n_merged_texts, section_level, merged_level) ==
    test_tokens > max_tokens /\ n_merged_texts > 0

\* b_new_chunk without the token test
b_new_chunk_level_only(test_tokens, n_merged_texts, section_level, merged_level) ==
    0 <= section_level /\ section_level < merged_level

\* b_new_chunk
b_new_chunk(test_tokens, n_merged_texts, section_level, merged_level) ==
    \/ test_tokens > max_tokens /\ n_merged_texts > 0
    \/ 0 <= section_level /\ section_level < merged_level

\* list.extend on the lists of section a of sections_with_text
extend_section(secs, a, sec) ==
    [secs EXCEPT ![a].items = @ \o sec.items,
                 ![a].header_infos = @ \o sec.header_infos,
                 ![a].header_short_infos = @ \o sec.header_short_infos]

\* One iteration of `for text, items, header_infos, header_short_infos in
\* sections_with_text`. After `merged_items = items` the accumulator lists are
\* the section's own list objects, so extending them extends the section too
\* (and the step 1 section it took them from).
PackSection ==
    /\ pc = "pack"
    /\ pack_k <= Len(sections_with_text)
    /\ LET sec == sections_with_text[pack_k]
           test_tokens == count_tokens(Join(Append(merged_texts, sec.text), NL))
           section_level == get_header_level(sec.header_infos, TRUE)
           merged_level == get_header_level(merged_header_infos, FALSE)
       IN  IF b_new_chunk(test_tokens, Len(merged_texts), section_level, merged_level)
           THEN /\ result_chunks' = result_chunks
                        \o get_current_chunk(merged_texts, merged_header_short_infos,
                                             merged_items)
                /\ merged_texts' = << sec.text >>
                /\ merged_items' = sec.items
                /\ merged_header_infos' = sec.header_infos
                /\ merged_header_short_infos' = sec.header_short_infos
                /\ merged_alias' = pack_k
                /\ UNCHANGED << sections, sections_with_text >>
           ELSE /\ merged_texts' = Append(merged_texts, sec.text)
                /\ merged_items' = merged_items \o sec.items
                /\ merged_header_infos' = merged_header_infos \o sec.header_infos
                /\ merged_header_short_infos' =
                       merged_header_short_infos \o sec.header_short_infos
                /\ sections_with_text' =
                       IF merged_alias = 0 THEN sections_with_text
                       ELSE extend_section(sections_with_text, merged_alias, sec)
                /\ sections' =
                       IF merged_alias = 0 \/ sections_with_text[merged_alias].src = 0
                       THEN sections
                       ELSE extend_section(sections,
                                           sections_with_text[merged_alias].src, sec)
                /\ UNCHANGED << merged_alias, result_chunks >>
    /\ pack_k' = pack_k + 1
    /\ UNCHANGED << conf_vars, pc, flat_vars, scan_i >>
    /\ UNCHANGED service_vars

\* after the loop: the chunk of what is still accumulated
FinishPacking ==
    /\ pc = "pack"
    /\ pack_k > Len(sections_with_text)
    /\ result_chunks' = result_chunks
            \o get_current_chunk(merged_texts, merged_header_short_infos, merged_items)
    /\ pc' = "done"
    /\ UNCHANGED << conf_vars, flat_vars, split_vars, pack_k, merged_texts,
                    merged_items, merged_header_infos, merged_header_short_infos,
                    merged_alias >>
    /\ UNCHANGED service_vars

Next ==
    \/ IterateItem
    \/ FinishTraversal
    \/ SegmentSections
    \/ RenderSections
    \/ ScanSection
    \/ PackSection
    \/ FinishPacking

Spec == Init /\ [][Next]_vars

\* -------------------------------------- HybridChunker.chunk as one function
\* The same code as the actions above, composed: what chunker.chunk(dl_doc)
\* returns to a caller (self.merge_list_items and self.max_tokens as they are).
flat_start ==
    [all_items |-> << >>, all_header_info |-> << >>, all_header_short_info |-> << >>,
     current_heading_by_level |-> EmptyDict,
     current_heading_short_by_level |-> EmptyDict,
     list_items |-> << >>, processed_refs |-> {}]

\* the body of the loop over iterate_items() for one node
flat_item(st, item) ==
    LET buffering == merge_list_items /\ item.kind = "list_item"
        flush == merge_list_items /\ ~buffering /\ st.list_items # << >>
        n == Len(st.list_items)
        st0 == IF flush
               THEN [st EXCEPT
                       !.all_items = @ \o st.list_items,
                       !.all_header_info = @ \o Copies(st.current_heading_by_level, n),
                       !.all_header_short_info =
                           @ \o Copies(st.current_heading_short_by_level, n),
                       !.list_items = << >>]
               ELSE st
        st1 == [st0 EXCEPT !.processed_refs = @ \cup {item.self_ref}]
        lvl == header_level(item)
        cur1 == HeadingUpdate(st.current_heading_by_level, lvl, item.text)
        curs1 == HeadingUpdate(st.current_heading_short_by_level, lvl, item.orig)
    IN  IF item.kind = "group"
        THEN [st EXCEPT !.processed_refs = @ \cup {item.self_ref}]
        ELSE IF buffering
        THEN [st EXCEPT !.processed_refs = @ \cup {item.self_ref},
                        !.list_items = Append(@, item)]
        ELSE IF is_section_header(item)
        THEN [st1 EXCEPT !.current_heading_by_level = cur1,
                         !.current_heading_short_by_level = curs1,
                         !.all_items = Append(@, item),
                         !.all_header_info = Append(@, cur1),
                         !.all_header_short_info = Append(@, curs1)]
        ELSE [st1 EXCEPT !.all_items = Append(@, item),
                         !.all_header_info = Append(@, st.current_heading_by_level),
                         !.all_header_short_info =
                             Append(@, st.current_heading_short_by_level)]

RECURSIVE flat_from(_, _, _)
flat_from(body, i, st) ==
    IF i > Len(body) THEN st ELSE flat_from(body, i + 1, flat_item(st, body[i]))

\* HierarchicalChunker.chunk: the item list and the two snapshot lists of the
\* one chunk it yields (three empty lists: it yields nothing)
hierarchical_chunk(doc) ==
    LET st == flat_from(doc.body, 1, flat_start)
        n == Len(st.list_items)
        miss == missing_tables(doc.tables, st.processed_refs)
    IN  [all_items |-> InsertFront(st.all_items \o st.list_items, miss),
         all_header_info |->
             InsertFront(st.all_header_info \o Copies(st.current_heading_by_level, n),
                         Copies(EmptyDict, Len(miss))),
         all_header_short_info |->
             InsertFront(st.all_header_short_info
                             \o Copies(st.current_heading_short_by_level, n),
                         Copies(EmptyDict, Len(miss)))]

pack_start ==
    [merged_texts |-> << >>, merged_items |-> << >>, merged_header_infos |-> << >>,
     merged_header_short_infos |-> << >>, result_chunks |-> << >>]

\* the body of the loop of step 4 for one section
pack_item(acc, sec) ==
    LET test_tokens == count_tokens(Join(Append(acc.merged_texts, sec.text), NL))
        section_level == get_header_level(sec.header_infos, TRUE)
        merged_level == get_header_level(acc.merged_header_infos, FALSE)
    IN  IF b_new_chunk(test_tokens, Len(acc.merged_texts), section_level, merged_level)
        THEN [merged_texts |-> << sec.text >>,
              merged_items |-> sec.items,
              merged_header_infos |-> sec.header_infos,
              merged_header_short_infos |-> sec.header_short_infos,
              result_chunks |->
                  acc.result_chunks
                      \o get_current_chunk(acc.merged_texts,
                                           acc.merged_header_short_infos,
                                           acc.merged_items)]
        ELSE [acc EXCEPT
                !.merged_texts = Append(@, sec.text),
                !.merged_items = @ \o sec.items,
                !.merged_header_infos = @ \o sec.header_infos,
                !.merged_header_short_infos = @ \o sec.header_short_infos]

RECURSIVE pack_from(_, _, _)
pack_from(secs, k, acc) ==
    IF k > Len(secs)
    THEN acc.result_chunks
             \o get_current_chunk(acc.merged_texts, acc.merged_header_short_infos,
                                  acc.merged_items)
    ELSE pack_from(secs, k + 1, pack_item(acc, secs[k]))

\* _split_document_by_tokens: steps 1 to 4
split_document_by_tokens(all) ==
    LET secs == segment(all.all_items, all.all_header_info, all.all_header_short_info)
    IN  pack_from(merge_lone_headings([j \in 1..Len(secs) |-> with_text(secs, j)]),
                  1, pack_start)

\* list(HybridChunker.chunk(dl_doc))
hybrid_chunk(doc) ==
    LET all == hierarchical_chunk(doc)
    IN  IF all.all_items = << >> THEN << >> ELSE split_document_by_tokens(all)

\* the pipeline run step by step ends with the chunks of hybrid_chunk
ChunkFunctionAgrees == pc = "done" => result_chunks = hybrid_chunk(dl_doc)

\* ------------------------------ HybridChunker.chunk called again and again
\* Calls of chunk() one HybridChunker serves in SpecTwice.
MaxRuns == 3
\* Nodes of the document of the first call.
MaxTwiceItems == 2

\* the documents of the first call
TwiceDocuments == {d \in Documents : Len(d.body) <= MaxTwiceItems /\ Len(d.tables) <= 2}

\* documents chunked in between: three sections of which the packer extends
\* the second in place; a heading, a buffered list item and a missed table
BetweenDocuments ==
    { [body |-> Body(<< 4, 6, 3 >>), tables |-> << >>],
      [body |-> Body(<< 2, 8 >>), tables |-> << MkItem(MaxItems + 1, MissingTable) >>] }

\* fresh_headings keeping the dict of the call before
fresh_headings_kept(previous) == previous

\* HierarchicalChunker.chunk on entry: current_heading_by_level = {}
\* (previous: what the call before left in its local of that name)
fresh_headings(previous) == EmptyDict

\* chunk() has returned and is called again, on a document chunked before or,
\* after the first call, on another one: every local starts afresh, the
\* chunker object and the item trees are what they were
ChunkAgain ==
    /\ pc = "done"
    /\ Len(runs) < MaxRuns - 1
    /\ runs' = Append(runs, [doc |-> dl_doc, chunks |-> result_chunks])
    /\ dl_doc' \in {runs'[a].doc : a \in 1..Len(runs')}
                   \cup (IF runs = << >> THEN BetweenDocuments ELSE {})
    /\ pc' = "iterate"
    /\ pos' = 1
    /\ all_items' = << >>
    /\ all_header_info' = << >>
    /\ all_header_short_info' = << >>
    /\ current_heading_by_level' = fresh_headings(current_heading_by_level)
    /\ current_heading_short_by_level' = EmptyDict
    /\ list_items' = << >>
    /\ processed_refs' = {}
    /\ sections' = << >>
    /\ sections_with_text' = << >>
    /\ scan_i' = 0
    /\ pack_k' = 0
    /\ merged_texts' = << >>
    /\ merged_items' = << >>
    /\ merged_header_infos' = << >>
    /\ merged_header_short_infos' = << >>
    /\ merged_alias' = 0
    /\ result_chunks' = << >>
    /\ UNCHANGED << merge_list_items, max_tokens >>
    /\ UNCHANGED << processor_vars, chat_vars, counter_vars, ocr_vars, first_vars >>

InitTwice ==
    /\ Init
    /\ dl_doc \in TwiceDocuments

NextTwice ==
    \/ Next
    \/ ChunkAgain

SpecTwice == InitTwice /\ [][NextTwice]_vars

\* ------------------- DocumentProcessor of intelligent_processor_law.py
\* HybridChunker.chunk is at rest; split_documents builds its chunker with
\* max_tokens=1000 and a HierarchicalChunker of the default merge_list_items
ChunkerIdle ==
    /\ dl_doc = [body |-> << >>, tables |-> << >>]
    /\ merge_list_items = FALSE
    /\ max_tokens = SplitMaxTokens
    /\ pc = "idle"
    /\ pos = 1
    /\ all_items = << >>
    /\ all_header_info = << >>
    /\ all_header_short_info = << >>
    /\ current_heading_by_level = EmptyDict
    /\ current_heading_short_by_level = EmptyDict
    /\ list_items = << >>
    /\ processed_refs = {}
    /\ sections = << >>
    /\ sections_with_text = << >>
    /\ scan_i = 0
    /\ pack_k = 0
    /\ merged_texts = << >>
    /\ merged_items = << >>
    /\ merged_header_infos = << >>
    /\ merged_header_short_infos = << >>
    /\ merged_alias = 0
    /\ result_chunks = << >>

\* The nodes of a loaded document: a title, a section header, a paragraph, a
\* paragraph of white space, a table with cells, a table without cells, a picture.
CallPalette ==
    << [kind |-> "title",          level |-> 0, text |-> << "T" >>,           orig |-> << "t" >>,           n_cells |-> 0],
       [kind |-> "section_header", level |-> 1, text |-> << "A" >>,           orig |-> << "A" >>,           n_cells |-> 0],
       [kind |-> "text",           level |-> 0, text |-> << "w", " ", "w" >>, orig |-> << "w", " ", "w" >>, n_cells |-> 0],
       [kind |-> "text",           level |-> 0, text |-> << " " >>,           orig |-> << " " >>,           n_cells |-> 0],
       [kind |-> "table",          level |-> 0, text |-> << "c", " ", "d" >>, orig |-> << >>,               n_cells |-> 2],
       [kind |-> "table",          level |-> 0, text |-> << >>,               orig |-> << >>,               n_cells |-> 0],
       [kind |-> "picture",        level |-> 0, text |-> << >>,               orig |-> << >>,               n_cells |-> 0] >>

\* item.prov: no provenance record, or one record naming a page
ProvChoices == {<< >>} \cup {<< p >> : p \in Pages}

\* the node with its self_ref and its prov (the page_no of each record)
MkCallItem(ref, p, prov) ==
    [self_ref |-> ref, kind |-> p.kind, level |-> p.level, text |-> p.text,
     orig |-> p.orig, n_cells |-> p.n_cells, prov |-> prov]

CallBody(f, g) ==
    IF DOMAIN f = {} THEN << >>
    ELSE [i \in 1..Cardinality(DOMAIN f) |-> MkCallItem(i, CallPalette[f[i]], g[i])]

\* the pages named by the provenance records of the items
ProvPages(body) == UNION {{body[i].prov[j] : j \in 1..Len(body[i].prov)} : i \in 1..Len(body)}

\* the documents of n nodes, with document.pages: every page, or none at all
CallDocumentsOf(n) ==
    { [body |-> CallBody(f, g), tables |-> SelectSeq(CallBody(f, g), IsTable),
       pages |-> ps] :
        f \in [1..n -> 1..Len(CallPalette)], g \in [1..n -> ProvChoices],
        ps \in {{}, Pages} }

\* What load_documents and enrichment hand to __call__: a page a provenance
\* record names is a page of the document
CallDocuments ==
    {d \in UNION {CallDocumentsOf(n) : n \in 0..MaxCallItems} :
        ProvPages(d.body) \subseteq d.pages}

\* item.text and item.text.strip()
has_visible_text(item) == \E i \in 1..Len(item.text) : ~IsSpace(item.text[i])

\* has_text_items of __call__: some node is a text-bearing item with visible
\* text, or a table whose data has no cell
has_text_items(doc) ==
    \E i \in 1..Len(doc.body) :
        \/ /\ doc.body[i].kind \in {"title", "section_header", "text", "list_item"}
           /\ has_visible_text(doc.body[i])
        \/ /\ doc.body[i].kind = "table"
           /\ doc.body[i].n_cells = 0

\* add_text without the new item
add_text_nothing(doc) == doc

\* document.add_text(label=TEXT, text=".", prov=ProvenanceItem(page_no=1, ...))
add_text(doc) ==
    [doc EXCEPT !.body =
        Append(@, [self_ref |-> Len(doc.body) + 1, kind |-> "text", level |-> 0,
                   text |-> << "." >>, orig |-> << "." >>, n_cells |-> 0,
                   prov |-> << 1 >>])]

\* the chunks whose first item has no provenance record: doc_items[0].prov[0]
\* raises IndexError there
NoProv(cs) == {c \in 1..Len(cs) : cs[c].doc_items[1].prov = << >>}

\* chunk.meta.doc_items[0].prov[0].page_no
chunk_page(chunk) == chunk.doc_items[1].prov[1]

\* the loop of split_documents over the chunks before chunk n
counts_upto(counts, cs, n) ==
    [p \in Pages |->
        counts[p] + Cardinality({c \in 1..(n - 1) : chunk_page(cs[c]) = p})]

\* split_documents: the chunks, self.page_chunk_counts afterwards, and whether
\* the loop raised (the counts of the chunks before the faulty one stay)
split_documents(doc, counts) ==
    LET cs == hybrid_chunk(doc)
        bad == NoProv(cs)
    IN  [chunks |-> cs,
         raised |-> bad # {},
         counts |-> counts_upto(counts, cs, IF bad = {} THEN Len(cs) + 1 ELSE MinOf(bad))]

HeaderPrefix == << "H", "E", "A", "D", "E", "R", ":", " " >>

\* content of compose_vectors
content(chunk) ==
    IF chunk.headings # << >>
    THEN HeaderPrefix \o Join(chunk.headings, CommaSpace) \o NL \o chunk.text
    ELSE chunk.text

\* set_chunk_bboxes: the largest page of the provenance records, None (0) without one
e_page(chunk) ==
    IF ProvPages(chunk.doc_items) = {} THEN 0 ELSE MaxOf(ProvPages(chunk.doc_items))

RECURSIVE compose_from(_, _, _, _, _, _)
\* the loop of compose_vectors from chunk i on (current_page None is 0)
compose_from(cs, i, current_page, chunk_index_on_page, counts, acc) ==
    IF i > Len(cs) THEN acc
    ELSE LET page == chunk_page(cs[i])
             idx == IF page # current_page THEN 0 ELSE chunk_index_on_page
             vector == [text |-> content(cs[i]),
                        i_page |-> page,
                        e_page |-> e_page(cs[i]),
                        i_chunk_on_page |-> idx,
                        n_chunk_of_page |-> counts[page],
                        i_chunk_on_doc |-> i - 1,
                        n_chunk_of_doc |-> Len(cs)]
         IN  compose_from(cs, i + 1, page, idx + 1, counts, Append(acc, vector))

\* compose_vectors: set_chunk_bboxes reads document.pages.get(page_no).size and
\* raises when the document has no such page
compose_vectors(doc, cs, counts) ==
    [raised |-> \E c \in 1..Len(cs) : ~(ProvPages(cs[c].doc_items) \subseteq doc.pages),
     vectors |-> compose_from(cs, 1, 0, 0, counts, << >>)]

\* run() awaits processor(request, file_path): load_documents, the OCR passes
\* and enrichment produce the document
LoadDocuments ==
    /\ call_pc = "idle"
    /\ served < MaxRequests
    /\ document' \in CallDocuments
    /\ call_pc' = "loaded"
    /\ UNCHANGED << page_chunk_counts, served, request_disconnected, chunks, vectors >>
    /\ UNCHANGED << chunker_vars, chat_vars, counter_vars, later_vars >>

\* the client goes away while the call is at work
ClientDisconnects ==
    /\ call_pc \in {"loaded", "chunked"}
    /\ ~request_disconnected
    /\ request_disconnected' = TRUE
    /\ UNCHANGED << page_chunk_counts, served, call_pc, document, chunks, vectors >>
    /\ UNCHANGED << chunker_vars, chat_vars, counter_vars, later_vars >>

\* __call__ from the has_text_items loop to the return of split_documents
SplitDocuments ==
    /\ call_pc = "loaded"
    /\ LET doc == IF has_text_items(document) THEN document ELSE add_text(document)
           res == split_documents(doc, page_chunk_counts)
       IN  /\ document' = doc
           /\ page_chunk_counts' = res.counts
           /\ chunks' = IF res.raised THEN chunks ELSE res.chunks
           /\ call_pc' = IF res.raised THEN "raised" ELSE "chunked"
    /\ UNCHANGED << served, request_disconnected, vectors >>
    /\ UNCHANGED << chunker_vars, chat_vars, counter_vars, later_vars >>

\* __call__ after split_documents: compose_vectors, or GenosServiceException(1,
\* "chunk length is 0")
ComposeVectors ==
    /\ call_pc = "chunked"
    /\ IF Len(chunks) >= 1
       THEN LET res == compose_vectors(document, chunks, page_chunk_counts)
            IN  /\ vectors' = IF res.raised THEN vectors ELSE res.vectors
                /\ call_pc' = IF res.raised THEN "raised" ELSE "returned"
       ELSE /\ vectors' = vectors
            /\ call_pc' = "chunk length is 0"
    /\ UNCHANGED << page_chunk_counts, served, request_disconnected, document, chunks >>
    /\ UNCHANGED << chunker_vars, chat_vars, counter_vars, later_vars >>

\* run() answers; the processor (a module-level singleton) waits for the next
\* request with the page_chunk_counts it has
Respond ==
    /\ call_pc \in {"returned", "raised", "chunk length is 0"}
    /\ served' = served + 1
    /\ call_pc' = "idle"
    /\ request_disconnected' = FALSE
    /\ document' = << >>
    /\ chunks' = << >>
    /\ vectors' = << >>
    /\ UNCHANGED page_chunk_counts
    /\ UNCHANGED << chunker_vars, chat_vars, counter_vars, later_vars >>

InitCall ==
    /\ ChunkerIdle
    /\ LaterIdle
    /\ ProcessorIdle
    /\ ChatIdle
    /\ CounterIdle

NextCall ==
    \/ LoadDocuments
    \/ ClientDisconnects
    \/ SplitDocuments
    \/ ComposeVectors
    \/ Respond

SpecCall == InitCall /\ [][NextCall]_vars

\* ------------------------------ DocumentProcessor of the chat agent (PDF, DOC)
\* page_content of a loaded Document, as the pieces the text splitter cuts it
\* into: one empty piece, one piece, two pieces
ChatContents == { << << >> >>, << << "a" >> >>, << << "a" >>, << "b" >> >> }

\* metadata of a loaded Document: 'page' naming a page, or no 'page' key (0)
ChatPageKeys == {0} \cup Pages

\* loader.load(): the list of Documents of one file
ChatLoads ==
    UNION { [1..n -> [pieces : ChatContents, page : ChatPageKeys]] : n \in 0..MaxChatDocs }

RECURSIVE split_pieces(_, _)
\* text_splitter.split_documents(documents) from document i on: one chunk per
\* piece, with the metadata of its document
split_pieces(docs, i) ==
    IF i > Len(docs) THEN << >>
    ELSE [j \in 1..Len(docs[i].pieces) |->
              [page_content |-> docs[i].pieces[j], page |-> docs[i].page]]
         \o split_pieces(docs, i + 1)

\* chunk.metadata.get('page', 1)
metadata_page(chunk) == IF chunk.page = 0 THEN 1 ELSE chunk.page

\* split_documents of the chat agent: the chunks with page_content, whether
\* 'Empty document' is raised, and self.page_chunk_counts afterwards
chat_split_documents(docs, counts) ==
    LET cs == SelectSeq(split_pieces(docs, 1), LAMBDA c : c.page_content # << >>)
    IN  [chunks |-> cs,
         raised |-> cs = << >>,
         counts |-> [p \in Pages |->
                        counts[p]
                        + Cardinality({c \in 1..Len(cs) : metadata_page(cs[c]) = p})]]

RECURSIVE chat_compose_from(_, _, _, _, _, _)
\* the loop of compose_vectors from chunk i on (current_page None is 0)
chat_compose_from(cs, i, current_page, chunk_index_on_page, counts, acc) ==
    IF i > Len(cs) THEN acc
    ELSE LET page == metadata_page(cs[i])
             idx == IF page # current_page THEN 0 ELSE chunk_index_on_page
             vector == [text |-> cs[i].page_content,
                        i_page |-> page,
                        e_page |-> page,
                        i_chunk_on_page |-> idx,
                        n_chunk_of_page |-> counts[page],
                        i_chunk_on_doc |-> i - 1,
                        n_chunk_of_doc |-> Len(cs)]
         IN  chat_compose_from(cs, i + 1, page, idx + 1, counts, Append(acc, vector))

\* compose_vectors of the chat agent
chat_compose_vectors(cs, counts) == chat_compose_from(cs, 1, 0, 0, counts, << >>)

\* assert_cancelled raises HTTPException exactly when the client is disconnected
assert_cancelled(disconnected) == disconnected

\* __call__ of request r up to its first `await assert_cancelled(request)`
ChatLoad(r) ==
    /\ chat_pc[r] = "idle"
    /\ \E docs \in ChatLoads : chat_documents' = [chat_documents EXCEPT ![r] = docs]
    /\ chat_pc' = [chat_pc EXCEPT ![r] = "loaded"]
    /\ UNCHANGED << chat_page_chunk_counts, chat_disconnected, chat_chunks, chat_vectors >>
    /\ UNCHANGED << chunker_vars, processor_vars, counter_vars, later_vars >>

\* the client of request r goes away while the call is suspended
ChatDisconnect(r) ==
    /\ chat_pc[r] \in {"loaded", "split"}
    /\ ~chat_disconnected[r]
    /\ chat_disconnected' = [chat_disconnected EXCEPT ![r] = TRUE]
    /\ UNCHANGED << chat_page_chunk_counts, chat_pc, chat_documents, chat_chunks,
                    chat_vectors >>
    /\ UNCHANGED << chunker_vars, processor_vars, counter_vars, later_vars >>

\* request r resumes from the first checkpoint: split_documents, up to the
\* second `await assert_cancelled(request)`
ChatSplit(r) ==
    /\ chat_pc[r] = "loaded"
    /\ IF assert_cancelled(chat_disconnected[r])
       THEN /\ chat_pc' = [chat_pc EXCEPT ![r] = "cancelled"]
            /\ UNCHANGED << chat_page_chunk_counts, chat_chunks >>
       ELSE LET res == chat_split_documents(chat_documents[r], chat_page_chunk_counts)
            IN  IF res.raised
                THEN /\ chat_pc' = [chat_pc EXCEPT ![r] = "raised"]
                     /\ UNCHANGED << chat_page_chunk_counts, chat_chunks >>
                ELSE /\ chat_pc' = [chat_pc EXCEPT ![r] = "split"]
                     /\ chat_page_chunk_counts' = res.counts
                     /\ chat_chunks' = [chat_chunks EXCEPT ![r] = res.chunks]
    /\ UNCHANGED << chat_disconnected, chat_documents, chat_vectors >>
    /\ UNCHANGED << chunker_vars, processor_vars, counter_vars, later_vars >>

\* request r resumes from the second checkpoint: compose_vectors and return
ChatCompose(r) ==
    /\ chat_pc[r] = "split"
    /\ IF assert_cancelled(chat_disconnected[r])
       THEN /\ chat_pc' = [chat_pc EXCEPT ![r] = "cancelled"]
            /\ UNCHANGED chat_vectors
       ELSE /\ chat_pc' = [chat_pc EXCEPT ![r] = "returned"]
            /\ chat_vectors' =
                   [chat_vectors EXCEPT
                       ![r] = chat_compose_vectors(chat_chunks[r], chat_page_chunk_counts)]
    /\ UNCHANGED << chat_page_chunk_counts, chat_disconnected, chat_documents,
                    chat_chunks >>
    /\ UNCHANGED << chunker_vars, processor_vars, counter_vars, later_vars >>

InitChat ==
    /\ ChunkerIdle
    /\ LaterIdle
    /\ ProcessorIdle
    /\ ChatIdle
    /\ CounterIdle

\* the event loop runs one request at a time, from one await to the next
NextChat ==
    \E r \in Requests :
        \/ ChatLoad(r)
        \/ ChatDisconnect(r)
        \/ ChatSplit(r)
        \/ ChatCompose(r)

SpecChat == InitChat /\ [][NextChat]_vars

\* --------------------------------------- HybridChunker._count_tokens, watched
\* A line of n characters: words of one letter, one blank between them
WordsLine(n) == [i \in 1..n |-> IF i % 2 = 1 THEN "a" ELSE " "]

\* line lengths around max_chunk_length and its half
LineLengths ==
    {0, 3, max_chunk_length \div 2 - 1, max_chunk_length \div 2 + 1, max_chunk_length + 1}

\* the texts of up to MaxLines lines (no line at all: the empty text)
TokTexts ==
    {Join(ls, NL) :
        ls \in UNION {[1..n -> {WordsLine(k) : k \in LineLengths}] : n \in 0..MaxLines}}

\* int(len(current_chunk.split()) * 1.3)
estimate(buf) == (Words(buf) * 13) \div 10

\* the tokenizer call without the try/except around it
tokenize_unguarded(buf, ok) == [raised |-> ~ok, tokens |-> Tokenize(buf)]

\* try: len(self._tokenizer.tokenize(buf)) except Exception: the estimate;
\* ok tells whether the tokenizer succeeds on this call
tokenize_guarded(buf, ok) ==
    [raised |-> FALSE, tokens |-> IF ok THEN Tokenize(buf) ELSE estimate(buf)]

\* `if not text: return 0`, else lines = text.split('\n') and the loop starts
CountBegin ==
    /\ tok_pc = "call"
    /\ tok_pc' = IF tok_text = << >> THEN "returned" ELSE "lines"
    /\ tok_line_i' = 1
    /\ UNCHANGED << tok_text, tok_current_chunk, tok_total_tokens, tokenized >>
    /\ UNCHANGED << chunker_vars, processor_vars, chat_vars, later_vars >>

\* one iteration of `for line in lines`
CountLine ==
    /\ tok_pc = "lines"
    /\ tok_line_i <= Len(Split(tok_text, "\n"))
    /\ LET line == Split(tok_text, "\n")[tok_line_i]
           temp_chunk == IF tok_current_chunk # << >>
                         THEN tok_current_chunk \o NL \o line ELSE line
       IN  IF Len(temp_chunk) <= max_chunk_length
           THEN /\ tok_current_chunk' = temp_chunk
                /\ tok_line_i' = tok_line_i + 1
                /\ UNCHANGED << tok_pc, tok_total_tokens, tokenized >>
           ELSE IF tok_current_chunk # << >>
           THEN \E ok \in BOOLEAN :
                    LET res == tokenize_guarded(tok_current_chunk, ok)
                    IN  /\ tokenized' =
                               Append(tokenized, [buf |-> tok_current_chunk, ok |-> ok])
                        /\ IF res.raised
                           THEN /\ tok_pc' = "raised"
                                /\ UNCHANGED << tok_current_chunk, tok_line_i,
                                                tok_total_tokens >>
                           ELSE /\ tok_total_tokens' = tok_total_tokens + res.tokens
                                /\ tok_current_chunk' = line
                                /\ tok_line_i' = tok_line_i + 1
                                /\ UNCHANGED tok_pc
           ELSE /\ tok_current_chunk' = line
                /\ tok_line_i' = tok_line_i + 1
                /\ UNCHANGED << tok_pc, tok_total_tokens, tokenized >>
    /\ UNCHANGED tok_text
    /\ UNCHANGED << chunker_vars, processor_vars, chat_vars, later_vars >>

\* after the loop: the last buffer, and `return total_tokens`
CountLast ==
    /\ tok_pc = "lines"
    /\ tok_line_i > Len(Split(tok_text, "\n"))
    /\ IF tok_current_chunk # << >>
       THEN \E ok \in BOOLEAN :
                LET res == tokenize_guarded(tok_current_chunk, ok)
                IN  /\ tokenized' =
                           Append(tokenized, [buf |-> tok_current_chunk, ok |-> ok])
                    /\ tok_pc' = IF res.raised THEN "raised" ELSE "returned"
                    /\ tok_total_tokens' =
                           IF res.raised THEN tok_total_tokens
                           ELSE tok_total_tokens + res.tokens
       ELSE /\ tok_pc' = "returned"
            /\ UNCHANGED << tok_total_tokens, tokenized >>
    /\ UNCHANGED << tok_text, tok_line_i, tok_current_chunk >>
    /\ UNCHANGED << chunker_vars, processor_vars, chat_vars, later_vars >>

InitCount ==
    /\ ChunkerIdle
    /\ LaterIdle
    /\ ProcessorIdle
    /\ ChatIdle
    /\ tok_text \in TokTexts
    /\ tok_pc = "call"
    /\ tok_line_i = 0
    /\ tok_current_chunk = << >>
    /\ tok_total_tokens = 0
    /\ tokenized = << >>

NextCount ==
    \/ CountBegin
    \/ CountLine
    \/ CountLast

SpecCount == InitCount /\ [][NextCount]_vars

\* -------------- DocumentProcessor of 삼성증권/문서생성_범용에이전트_ocr.py
\* Chunks one file gives (the chunker's for DOCX, the text splitter's for PDF, DOC).
MaxOcrChunks == 2

\* the extensions __call__ accepts, .jpeg and .png going the way of .jpg
OcrExtensions == {".jpg", ".docx", ".pdf", ".doc"}

\* what splitting gives for one file: per chunk the page it is counted on
\* (doc_items[0].prov[0].page_no, metadata.get('page', 1)) and whether its
\* page_content has anything but white space (DOCX chunks are not asked)
OcrChunkLists ==
    UNION { [1..n -> [page : Pages, visible : BOOLEAN]] : n \in 0..MaxOcrChunks }

\* the loop `self.page_chunk_counts[page] += 1` over the chunks
ocr_count(counts, cs) ==
    [p \in Pages |-> counts[p] + Cardinality({c \in 1..Len(cs) : cs[c].page = p})]

\* DocumentProcessor.split_documents: nothing without a chunk of visible text
ocr_split_documents(cs, counts) ==
    IF \A c \in 1..Len(cs) : ~cs[c].visible
    THEN [chunks |-> << >>, counts |-> counts]
    ELSE [chunks |-> cs, counts |-> ocr_count(counts, cs)]

RECURSIVE ocr_compose_from(_, _, _, _, _, _)
\* the loop of compose_vectors (the three of the file are the same loop) from
\* chunk i on (current_page None is 0)
ocr_compose_from(cs, i, current_page, chunk_index_on_page, counts, acc) ==
    IF i > Len(cs) THEN acc
    ELSE LET page == cs[i].page
             idx == IF page # current_page THEN 0 ELSE chunk_index_on_page
             vector == [i_page |-> page,
                        i_chunk_on_page |-> idx,
                        n_chunk_of_page |-> counts[page],
                        i_chunk_on_doc |-> i - 1,
                        n_chunk_of_doc |-> Len(cs)]
         IN  ocr_compose_from(cs, i + 1, page, idx + 1, counts, Append(acc, vector))

ocr_compose_vectors(cs, counts) == ocr_compose_from(cs, 1, 0, 0, counts, << >>)

\* ImageProcessor.__call__: set_page_info(1, 1, 1), set_chunk_index(1) and
\* n_chunk_of_doc=1
image_vectors ==
    << [i_page |-> 1, i_chunk_on_page |-> 1, n_chunk_of_page |-> 1,
        i_chunk_on_doc |-> 1, n_chunk_of_doc |-> 1] >>

\* PdfImageProcessor.create_pdf_chunks: one chunk on page 1
pdf_image_chunks == << [page |-> 1, visible |-> TRUE] >>

\* __call__ of the next request: the extension test, and for PDF and DOC
\* load_documents up to the first `await assert_cancelled(request)`
OcrReceive ==
    /\ ocr_pc = "idle"
    /\ ocr_served < MaxRequests
    /\ \E ext \in OcrExtensions :
          /\ ocr_ext' = ext
          /\ ocr_pc' = IF ext = ".jpg" THEN "image"
                       ELSE IF ext = ".docx" THEN "docx" ELSE "loaded"
    /\ UNCHANGED << ocr_page_chunk_counts, docx_page_chunk_counts, pdf_page_chunk_counts,
                    ocr_chunks, ocr_vectors, ocr_served >>
    /\ UNCHANGED << chunker_vars, service_less_ocr >>

\* `return await self.image_processor(request, file_path)`
OcrImage ==
    /\ ocr_pc = "image"
    /\ ocr_vectors' = image_vectors
    /\ ocr_pc' = "returned"
    /\ UNCHANGED << ocr_page_chunk_counts, docx_page_chunk_counts, pdf_page_chunk_counts,
                    ocr_ext, ocr_chunks, ocr_served >>
    /\ UNCHANGED << chunker_vars, service_less_ocr >>

\* `return await self.docx_processor(request, file_path)`: DocxProcessor.__call__
OcrDocx ==
    /\ ocr_pc = "docx"
    /\ \E cs \in OcrChunkLists :
          /\ ocr_chunks' = cs
          /\ docx_page_chunk_counts' = ocr_count(docx_page_chunk_counts, cs)
          /\ IF Len(cs) >= 1
             THEN /\ ocr_vectors' = ocr_compose_vectors(cs, docx_page_chunk_counts')
                  /\ ocr_pc' = "returned"
             ELSE /\ ocr_vectors' = << >>
                  /\ ocr_pc' = "raised"
    /\ UNCHANGED << ocr_page_chunk_counts, pdf_page_chunk_counts, ocr_ext, ocr_served >>
    /\ UNCHANGED << chunker_vars, service_less_ocr >>

\* PDF and DOC: split_documents up to the second `await assert_cancelled(request)`
OcrSplit ==
    /\ ocr_pc = "loaded"
    /\ \E cs \in OcrChunkLists :
          LET split == ocr_split_documents(cs, ocr_page_chunk_counts)
          IN  /\ ocr_chunks' = split.chunks
              /\ ocr_page_chunk_counts' = split.counts
    /\ ocr_pc' = "chunked"
    /\ UNCHANGED << docx_page_chunk_counts, pdf_page_chunk_counts, ocr_ext, ocr_vectors,
                    ocr_served >>
    /\ UNCHANGED << chunker_vars, service_less_ocr >>

\* PDF and DOC, the rest of __call__: a PDF without chunks goes to
\* PdfImageProcessor (page_chunk_counts[1] = 1, one chunk); otherwise
\* compose_vectors, whose max() over no chunk raises
OcrCompose ==
    /\ ocr_pc = "chunked"
    /\ IF ocr_ext = ".pdf" /\ ocr_chunks = << >>
       THEN /\ pdf_page_chunk_counts' = [pdf_page_chunk_counts EXCEPT ![1] = 1]
            /\ ocr_vectors' = ocr_compose_vectors(pdf_image_chunks, pdf_page_chunk_counts')
            /\ ocr_pc' = "returned"
       ELSE /\ UNCHANGED pdf_page_chunk_counts
            /\ IF ocr_chunks = << >>
               THEN /\ ocr_vectors' = << >>
                    /\ ocr_pc' = "raised"
               ELSE /\ ocr_vectors' = ocr_compose_vectors(ocr_chunks, ocr_page_chunk_counts)
                    /\ ocr_pc' = "returned"
    /\ UNCHANGED << ocr_page_chunk_counts, docx_page_chunk_counts, ocr_ext, ocr_chunks,
                    ocr_served >>
    /\ UNCHANGED << chunker_vars, service_less_ocr >>

\* the call is over; the processor object stays for the next one
OcrRespond ==
    /\ ocr_pc \in {"returned", "raised"}
    /\ ocr_pc' = "idle"
    /\ ocr_served' = ocr_served + 1
    /\ ocr_ext' = ""
    /\ ocr_chunks' = << >>
    /\ ocr_vectors' = << >>
    /\ UNCHANGED << ocr_page_chunk_counts, docx_page_chunk_counts, pdf_page_chunk_counts >>
    /\ UNCHANGED << chunker_vars, service_less_ocr >>

InitOcr ==
    /\ ChunkerIdle
    /\ ProcessorIdle
    /\ ChatIdle
    /\ CounterIdle
    /\ LaterIdle

NextOcr ==
    \/ OcrReceive
    \/ OcrImage
    \/ OcrDocx
    \/ OcrSplit
    \/ OcrCompose
    \/ OcrRespond

SpecOcr == InitOcr /\ [][NextOcr]_vars

\* ------------------------ the chunker of 삼성증권/채팅_범용에이전트.py
\* Nodes that iterate_items() yields for one document of this chunker.
MaxFirstItems == 3

\* HybridChunker.max_tokens values explored
FirstBudgets == {2, 3, 40}

\* The kinds of node: a TextItem labelled TITLE, a SectionHeaderItem (levels 1
\* and 2), a plain TextItem, a ListItem, a TableItem with one caption (text is
\* its export_to_markdown), a PictureItem, a DocItem of another class and a
\* group node (not a DocItem).
FirstPalette ==
    << [kind |-> "title",          level |-> 0, text |-> << "T" >>,           captions |-> << >>],
       [kind |-> "section_header", level |-> 1, text |-> << "A" >>,           captions |-> << >>],
       [kind |-> "section_header", level |-> 2, text |-> << "B" >>,           captions |-> << >>],
       [kind |-> "text",           level |-> 0, text |-> << "w", " ", "w" >>, captions |-> << >>],
       [kind |-> "list_item",      level |-> 0, text |-> << "l" >>,           captions |-> << >>],
       [kind |-> "table",          level |-> 0, text |-> << "c", " ", "d" >>,
                                                captions |-> << << "k" >> >>],
       [kind |-> "picture",        level |-> 0, text |-> << >>,               captions |-> << >>],
       [kind |-> "key_value",      level |-> 0, text |-> << >>,               captions |-> << >>],
       [kind |-> "group",          level |-> 0, text |-> << >>,               captions |-> << >>] >>

\* The documents: the nodes in the order of iterate_items(), with their self_ref
FirstDocuments ==
    { [i \in 1..n |-> [self_ref |-> i, kind |-> FirstPalette[f[i]].kind,
                       level |-> FirstPalette[f[i]].level,
                       text |-> FirstPalette[f[i]].text,
                       captions |-> FirstPalette[f[i]].captions]] :
        n \in 0..MaxFirstItems, f \in [1..MaxFirstItems -> 1..Len(FirstPalette)] }

\* heading_by_level is a dict in insertion order: a list of (key, value)
od_has(d, k) == \E i \in 1..Len(d) : d[i].key = k

\* d[k] = v
od_set(d, k, v) ==
    IF od_has(d, k)
    THEN [i \in 1..Len(d) |-> IF d[i].key = k THEN [key |-> k, value |-> v] ELSE d[i]]
    ELSE Append(d, [key |-> k, value |-> v])

\* d.values()
od_values(d) == [i \in 1..Len(d) |-> d[i].value]

\* the pops of every key k > level
od_pop_above(d, level) == SelectSeq(d, LAMBDA e : e.key <= level)

\* [heading_by_level[k] for k in sorted(heading_by_level)] or None (None is << >>)
sorted_headings(d) ==
    LET ks == SortedSeq({d[i].key : i \in 1..Len(d)})
    IN  [j \in 1..Len(ks) |-> (CHOOSE e \in {d[i] : i \in 1..Len(d)} : e.key = ks[j]).value]

\* DocChunk(text=..., meta=DocMeta(doc_items=..., headings=..., captions=...))
DocChunk(text, doc_items, headings, captions) ==
    [text |-> text, doc_items |-> doc_items, headings |-> headings, captions |-> captions]

\* the chunk of the buffered list items
list_chunk(items, d) ==
    DocChunk(Join([i \in 1..Len(items) |-> items[i].text], NL), items,
             sorted_headings(d), << >>)

\* the text of a heading's chunk: ''.join(heading_by_level.values()), taken
\* after heading_by_level[level] = item.text and before the pops
heading_text(d, level) == Join(od_values(d), << >>)

\* the flush with the list items kept in the buffer too
flush_keeps_buffer(items, flush) == items

\* list_items after the flush test: `list_items = []` when it was yielded
after_flush(items, flush) == IF flush THEN << >> ELSE items

\* HierarchicalChunker.chunk, one iteration of the loop over iterate_items():
\* heading_by_level and list_items afterwards, and the chunks yielded
inner_step(d, items, item) ==
    LET buffering == first_merge_list_items /\ item.kind = "list_item"
        flush == first_merge_list_items /\ ~buffering /\ items # << >>
        flushed == IF flush THEN << list_chunk(items, d) >> ELSE << >>
        items1 == after_flush(items, flush)
        level == IF item.kind = "section_header" THEN item.level ELSE 0
        d1 == od_set(d, level, item.text)
        d2 == od_pop_above(d1, level)
    IN  IF item.kind = "group"
        THEN [heading_by_level |-> d, list_items |-> items, yield |-> << >>]
        ELSE IF buffering
        THEN [heading_by_level |-> d, list_items |-> Append(items, item), yield |-> << >>]
        ELSE IF item.kind \in {"title", "section_header"}
        THEN [heading_by_level |-> d2, list_items |-> items1,
              yield |-> Append(flushed, DocChunk(heading_text(d1, level), << item >>,
                                                 sorted_headings(d2), << >>))]
        ELSE IF item.kind \in {"text", "list_item"}
        THEN [heading_by_level |-> d, list_items |-> items1,
              yield |-> Append(flushed, DocChunk(item.text, << item >>,
                                                 sorted_headings(d), << >>))]
        ELSE IF item.kind = "table"
        THEN [heading_by_level |-> d, list_items |-> items1,
              yield |-> Append(flushed, DocChunk(item.text, << item >>,
                                                 sorted_headings(d), item.captions))]
        ELSE IF item.kind = "picture"
        THEN [heading_by_level |-> d, list_items |-> items1,
              yield |-> Append(flushed, DocChunk(Join(od_values(d), << >>), << item >>,
                                                 sorted_headings(d), << >>))]
        ELSE [heading_by_level |-> d, list_items |-> items1, yield |-> flushed]

\* self.serialize(chunk) of the base chunker (a collaborator): the headings,
\* the captions and the text, what is there of them, joined by the delimiter
serialize(chunk) ==
    Join((IF chunk.headings = << >> THEN << >> ELSE << Join(chunk.headings, NL) >>)
         \o (IF chunk.captions = << >> THEN << >> ELSE << Join(chunk.captions, NL) >>)
         \o << chunk.text >>, NL)

\* _count_text_tokens of a str
count_text_tokens(text) == Tokenize(text)

\* _count_chunk_tokens
count_chunk_tokens(doc_chunk) == Tokenize(serialize(doc_chunk))

\* _doc_chunk_length
doc_chunk_length(doc_chunk) ==
    [total_len |-> count_chunk_tokens(doc_chunk),
     text_len  |-> count_text_tokens(doc_chunk.text),
     other_len |-> count_chunk_tokens(doc_chunk) - count_text_tokens(doc_chunk.text)]

\* isinstance(doc_item, TextItem)
is_text_item(item) == item.kind \in {"title", "section_header", "text", "list_item"}

\* make_chunk_from_doc_items with window_end taken as exclusive
make_chunk_from_doc_items_exclusive(doc_chunk, start, end) ==
    LET doc_items == SubSeq(doc_chunk.doc_items, start + 1, end)
        texts == SelectSeq(doc_items, LAMBDA it : it.kind \in {"title", "section_header",
                                                               "text", "list_item"})
    IN  DocChunk(IF Len(doc_chunk.doc_items) = 1 THEN doc_chunk.text
                 ELSE Join([i \in 1..Len(texts) |-> texts[i].text], NL),
                 doc_items, doc_chunk.headings, doc_chunk.captions)

\* _make_chunk_from_doc_items (window_end inclusive, both counted from 0)
make_chunk_from_doc_items(doc_chunk, start, end) ==
    LET doc_items == SubSeq(doc_chunk.doc_items, start + 1, end + 1)
        texts == SelectSeq(doc_items, is_text_item)
    IN  DocChunk(IF Len(doc_chunk.doc_items) = 1 THEN doc_chunk.text
                 ELSE Join([i \in 1..Len(texts) |-> texts[i].text], NL),
                 doc_items, doc_chunk.headings, doc_chunk.captions)

RECURSIVE sem_pack(_, _, _, _, _)
\* semchunk (a collaborator): the pieces between separators are packed, as
\* many in a row as count at most size tokens; a line that is too long by
\* itself is packed word by word; pieces without a token are dropped
sem_pack(splits, sep, size, cur, acc) ==
    IF splits = << >> THEN (IF cur = << >> THEN acc ELSE Append(acc, cur))
    ELSE LET piece == Head(splits)
             joined == IF cur = << >> THEN piece ELSE cur \o sep \o piece
             done == IF cur = << >> THEN acc ELSE Append(acc, cur)
         IN  IF Tokenize(piece) = 0 THEN sem_pack(Tail(splits), sep, size, cur, acc)
             ELSE IF Tokenize(piece) > size
             THEN sem_pack(Tail(splits), sep, size, << >>,
                           done \o sem_pack(Split(piece, " "), << " " >>, size, << >>, << >>))
             ELSE IF Tokenize(joined) <= size
             THEN sem_pack(Tail(splits), sep, size, joined, acc)
             ELSE sem_pack(Tail(splits), sep, size, piece, done)

\* semchunk.chunkerify(tokenizer, chunk_size=size).chunk(text), size >= 1
sem_chunk(text, size) ==
    IF Tokenize(text) <= size THEN (IF Tokenize(text) = 0 THEN << >> ELSE << text >>)
    ELSE sem_pack(Split(text, "\n"), NL, size, << >>, << >>)

\* split_using_plain_text that keeps a chunk without room for its text
split_using_plain_text_unguarded(doc_chunk) ==
    LET lengths == doc_chunk_length(doc_chunk)
        available_length == first_max_tokens - lengths.other_len
        segments == sem_chunk(doc_chunk.text, available_length)
    IN  IF lengths.total_len <= first_max_tokens THEN << doc_chunk >>
        ELSE IF available_length <= 0 THEN << doc_chunk >>
        ELSE [j \in 1..Len(segments) |->
                 DocChunk(segments[j], doc_chunk.doc_items, doc_chunk.headings,
                          doc_chunk.captions)]

\* _split_using_plain_text
split_using_plain_text(doc_chunk) ==
    LET lengths == doc_chunk_length(doc_chunk)
        available_length == first_max_tokens - lengths.other_len
        segments == sem_chunk(doc_chunk.text, available_length)
    IN  IF lengths.total_len <= first_max_tokens THEN << doc_chunk >>
        ELSE IF available_length <= 0 THEN << >>
        ELSE [j \in 1..Len(segments) |->
                 DocChunk(segments[j], doc_chunk.doc_items, doc_chunk.headings,
                          doc_chunk.captions)]

\* (chunk.meta.headings, chunk.meta.captions)
headings_and_captions(chunk) == << chunk.headings, chunk.captions >>

RECURSIVE all_doc_items(_)
\* [it for chk in chks for it in chk.meta.doc_items]
all_doc_items(chks) ==
    IF chks = << >> THEN << >> ELSE Head(chks).doc_items \o all_doc_items(Tail(chks))

\* the candidate of _merge_chunks_with_matching_metadata
candidate(cs, start, end, current) ==
    LET chks == SubSeq(cs, start + 1, end + 1)
    IN  DocChunk(Join([j \in 1..Len(chks) |-> chks[j].text], NL), all_doc_items(chks),
                 current[1], current[2])

\* fits with the token test left out
fits_always(chunk) == TRUE

\* self._count_chunk_tokens(doc_chunk=chunk) <= self.max_tokens
fits(chunk) == count_chunk_tokens(chunk) <= first_max_tokens

\* One iteration of the loop of HierarchicalChunker.chunk; what it yields goes
\* to the list HybridChunker.chunk builds
FirstIterate ==
    /\ first_pc = "inner"
    /\ first_pos <= Len(first_doc)
    /\ LET st == inner_step(heading_by_level, first_list_items, first_doc[first_pos])
       IN  /\ heading_by_level' = st.heading_by_level
           /\ first_list_items' = st.list_items
           /\ first_res' = first_res \o st.yield
    /\ first_pos' = first_pos + 1
    /\ UNCHANGED << first_conf_vars, first_pc, next_res, split_i, window_vars,
                    split_chunks, peer_vars >>
    /\ UNCHANGED << chunker_vars, service_less_first >>

\* After the loop: the list items still buffered
FirstFinish ==
    /\ first_pc = "inner"
    /\ first_pos > Len(first_doc)
    /\ first_res' = IF first_merge_list_items /\ first_list_items # << >>
              THEN Append(first_res, list_chunk(first_list_items, heading_by_level))
              ELSE first_res
    /\ first_pc' = "by_items"
    /\ UNCHANGED << first_conf_vars, inner_vars, next_res, split_i, window_vars,
                    split_chunks, peer_vars >>
    /\ UNCHANGED << chunker_vars, service_less_first >>

\* _split_by_doc_items(first_res[split_i]): one iteration of its while loop
SplitWindow ==
    /\ first_pc = "by_items"
    /\ split_i <= Len(first_res)
    /\ LET doc_chunk == first_res[split_i]
           num_items == Len(doc_chunk.doc_items)
           win == make_chunk_from_doc_items(doc_chunk, window_start, window_end)
       IN  /\ window_end < num_items
           /\ IF fits(win)
              THEN IF window_end < num_items - 1
                   THEN /\ window_end' = window_end + 1
                        /\ UNCHANGED << window_start, split_chunks >>
                   ELSE /\ window_end' = num_items
                        /\ split_chunks' = Append(split_chunks, win)
                        /\ UNCHANGED window_start
              ELSE IF window_start = window_end
              THEN /\ window_end' = window_end + 1
                   /\ window_start' = window_end + 1
                   /\ split_chunks' = Append(split_chunks, win)
              ELSE /\ window_start' = window_end
                   /\ split_chunks' =
                          Append(split_chunks,
                                 make_chunk_from_doc_items(doc_chunk, window_start,
                                                           window_end - 1))
                   /\ UNCHANGED window_end
    /\ UNCHANGED << first_conf_vars, first_pc, inner_vars, first_res, next_res, split_i,
                    peer_vars >>
    /\ UNCHANGED << chunker_vars, service_less_first >>

\* _split_by_doc_items(first_res[split_i]) returns its chunks to the comprehension
SplitReturn ==
    /\ first_pc = "by_items"
    /\ split_i <= Len(first_res)
    /\ window_end >= Len(first_res[split_i].doc_items)
    /\ next_res' = next_res \o split_chunks
    /\ split_i' = split_i + 1
    /\ window_start' = 0
    /\ window_end' = 0
    /\ split_chunks' = << >>
    /\ UNCHANGED << first_conf_vars, first_pc, inner_vars, first_res, peer_vars >>
    /\ UNCHANGED << chunker_vars, service_less_first >>

\* `first_res = [x for c in first_res for x in self._split_by_doc_items(c)]` is complete
SplitItemsDone ==
    /\ first_pc = "by_items"
    /\ split_i > Len(first_res)
    /\ first_res' = next_res
    /\ next_res' = << >>
    /\ split_i' = 1
    /\ first_pc' = "plain"
    /\ UNCHANGED << first_conf_vars, inner_vars, window_vars, split_chunks, peer_vars >>
    /\ UNCHANGED << chunker_vars, service_less_first >>

\* `for c in first_res for x in self._split_using_plain_text(c)`: one chunk c
SplitPlain ==
    /\ first_pc = "plain"
    /\ split_i <= Len(first_res)
    /\ next_res' = next_res \o split_using_plain_text(first_res[split_i])
    /\ split_i' = split_i + 1
    /\ UNCHANGED << first_conf_vars, first_pc, inner_vars, first_res, window_vars,
                    split_chunks, peer_vars >>
    /\ UNCHANGED << chunker_vars, service_less_first >>

\* the second comprehension is complete; `if self.merge_peers`
SplitPlainDone ==
    /\ first_pc = "plain"
    /\ split_i > Len(first_res)
    /\ first_res' = next_res
    /\ next_res' = << >>
    /\ split_i' = 1
    /\ first_pc' = IF merge_peers THEN "merge" ELSE "done"
    /\ UNCHANGED << first_conf_vars, inner_vars, window_vars, split_chunks, peer_vars >>
    /\ UNCHANGED << chunker_vars, service_less_first >>

\* _merge_chunks_with_matching_metadata(first_res): one iteration of its while loop
MergeStep ==
    /\ first_pc = "merge"
    /\ window_end < Len(first_res)
    /\ LET chunk == first_res[window_end + 1]
           cand == candidate(first_res, window_start, window_end, current_headings_and_captions)
           opens == window_start = window_end
           accept == /\ ~opens
                     /\ headings_and_captions(chunk) = current_headings_and_captions
                     /\ fits(cand)
           ready_to_append == ~opens /\ ~accept
           end1 == IF opens \/ accept THEN window_end + 1 ELSE window_end
           first1 == IF opens THEN chunk ELSE first_chunk_of_window
           new1 == IF accept THEN cand ELSE new_chunk
       IN  /\ current_headings_and_captions' =
                  IF opens THEN headings_and_captions(chunk)
                  ELSE current_headings_and_captions
           /\ first_chunk_of_window' = first1
           /\ new_chunk' = new1
           /\ window_end' = end1
           /\ IF ready_to_append \/ end1 = Len(first_res)
              THEN /\ output_chunks' =
                          Append(output_chunks,
                                 IF window_start + 1 = end1 THEN first1 ELSE new1)
                   /\ window_start' = end1
              ELSE UNCHANGED << output_chunks, window_start >>
    /\ UNCHANGED << first_conf_vars, first_pc, inner_vars, first_res, next_res, split_i,
                    split_chunks >>
    /\ UNCHANGED << chunker_vars, service_less_first >>

\* _merge_chunks_with_matching_metadata returns; chunk() returns iter(first_res)
MergeReturn ==
    /\ first_pc = "merge"
    /\ window_end >= Len(first_res)
    /\ first_res' = output_chunks
    /\ first_pc' = "done"
    /\ UNCHANGED << first_conf_vars, inner_vars, next_res, split_i, window_vars,
                    split_chunks, peer_vars >>
    /\ UNCHANGED << chunker_vars, service_less_first >>

InitFirst ==
    /\ ChunkerIdle
    /\ ProcessorIdle
    /\ ChatIdle
    /\ CounterIdle
    /\ NoRuns
    /\ OcrIdle
    /\ first_doc \in FirstDocuments
    /\ first_merge_list_items \in BOOLEAN
    /\ first_max_tokens \in FirstBudgets
    /\ merge_peers \in BOOLEAN
    /\ first_pc = "inner"
    /\ first_pos = 1
    /\ heading_by_level = << >>
    /\ first_list_items = << >>
    /\ first_res = << >>
    /\ next_res = << >>
    /\ split_i = 1
    /\ window_start = 0
    /\ window_end = 0
    /\ split_chunks = << >>
    /\ output_chunks = << >>
    /\ first_chunk_of_window = NoChunk
    /\ new_chunk = NoChunk
    /\ current_headings_and_captions = << << >>, << >> >>

NextFirst ==
    \/ FirstIterate
    \/ FirstFinish
    \/ SplitWindow
    \/ SplitReturn
    \/ SplitItemsDone
    \/ SplitPlain
    \/ SplitPlainDone
    \/ MergeStep
    \/ MergeReturn

SpecFirst == InitFirst /\ [][NextFirst]_vars

\* =============================================================== properties
\* What the properties mean by a heading and its level, read off the item itself.
IsHeading(it) == it.kind \in {"title", "section_header"}
LevelOf(it) == IF it.kind = "title" THEN 0 ELSE it.level

RECURSIVE ConcatUpTo(_, _)
\* f[1] \o ... \o f[n]
ConcatUpTo(f, n) == IF n = 0 THEN << >> ELSE ConcatUpTo(f, n - 1) \o f[n]

ChunkIndexes == 1..Len(result_chunks)

\* the level of the first heading among items, -1 when there is none
FirstHeadingLevel(items) ==
    LET hs == {j \in 1..Len(items) : IsHeading(items[j])}
    IN  IF hs = {} THEN -1 ELSE LevelOf(items[MinOf(hs)])

\* the numerically largest heading level among items, -1 when there is none
DeepestHeadingLevel(items) ==
    LET hs == {j \in 1..Len(items) : IsHeading(items[j])}
    IN  IF hs = {} THEN -1 ELSE MaxOf({LevelOf(items[j]) : j \in hs})

\* The section list the packer is given, recomputed from the flattened list
\* (the packer extends lists of sections_with_text in place while it runs).
PackerInput ==
    LET secs == segment(all_items, all_header_info, all_header_short_info)
    IN  merge_lone_headings([j \in 1..Len(secs) |-> with_text(secs, j)])

\* ----------------------------------------------------------------------- C1
\* C1: once chunking is done, every chunk has a non-empty doc_items list and
\* the doc_items of all chunks, concatenated in emission order, are exactly the
\* flattened item sequence: same items, same order, each once.
C1_Coverage ==
    pc = "done" =>
        /\ \A c \in ChunkIndexes : result_chunks[c].doc_items # << >>
        /\ ConcatUpTo([c \in ChunkIndexes |-> result_chunks[c].doc_items],
                      Len(result_chunks)) = all_items

\* several chunks, one of them of several items, one section made by a fold
C1_Witness ==
    /\ pc = "done"
    /\ Len(result_chunks) >= 2
    /\ \E c \in ChunkIndexes : Len(result_chunks[c].doc_items) >= 2
    /\ \E c \in ChunkIndexes :
          /\ Len(result_chunks[c].doc_items) >= 2
          /\ IsHeading(result_chunks[c].doc_items[1])
          /\ IsHeading(result_chunks[c].doc_items[2])

\* ----------------------------------------------------------------------- C2
\* the chunk is one table rendered as a single row
SingleTableRow(chunk) ==
    /\ Len(chunk.doc_items) = 1
    /\ chunk.doc_items[1].kind = "table"
    /\ Len(Split(chunk.text, "\n")) = 1

\* C2: every emitted chunk's text counts at most max_tokens tokens under
\* _count_tokens, unless the chunk is a single table row that alone exceeds
\* the budget.
C2_Budget ==
    pc = "done" =>
        \A c \in ChunkIndexes :
            \/ count_tokens(result_chunks[c].text) <= max_tokens
            \/ SingleTableRow(result_chunks[c])

\* ----------------------------------------------------------------------- C3
\* C3: a section s that arrives at a non-empty accumulator opens a new chunk
\* (the accumulator is emitted as a chunk and restarts with s alone) if and
\* only if the accumulated texts joined with s's text count more than
\* max_tokens, or s's first heading level L satisfies 0 <= L < the deepest
\* heading level among the accumulated items; otherwise s is merged into the
\* accumulator and no chunk is emitted.
C3_PackerBoundary ==
    [][ (pc = "pack" /\ pack_k <= Len(sections_with_text) /\ merged_texts # << >>) =>
          LET s == sections_with_text[pack_k]
              over == count_tokens(Join(Append(merged_texts, s.text), NL)) > max_tokens
              L == FirstHeadingLevel(s.items)
              shallower == 0 <= L /\ L < DeepestHeadingLevel(merged_items)
          IN  IF over \/ shallower
              THEN /\ Len(result_chunks') = Len(result_chunks) + 1
                   /\ result_chunks'[Len(result_chunks')].doc_items = merged_items
                   /\ merged_items' = s.items
                   /\ merged_texts' = << s.text >>
              ELSE /\ result_chunks' = result_chunks
                   /\ merged_items' = merged_items \o s.items
                   /\ merged_texts' = Append(merged_texts, s.text) ]_vars

\* a boundary opened by the level rule alone (all the text together fits the
\* budget), in a run where a section of equal level was merged
C3_Witness ==
    /\ pc = "done"
    /\ Len(result_chunks) >= 2
    /\ count_tokens(Join([c \in ChunkIndexes |-> result_chunks[c].text], NL)) <= max_tokens
    /\ \E c \in ChunkIndexes :
          \E i, j \in 1..Len(result_chunks[c].doc_items) :
              /\ i < j
              /\ IsHeading(result_chunks[c].doc_items[i])
              /\ IsHeading(result_chunks[c].doc_items[j])
              /\ Len(result_chunks[c].doc_items[i].text) > OrphanTextLimit
              /\ LevelOf(result_chunks[c].doc_items[i]) = LevelOf(result_chunks[c].doc_items[j])

\* ----------------------------------------------------------------------- C4
\* the chunks that hold the first item of section s of the packer's input
ChunksOf(s) ==
    {c \in ChunkIndexes :
        \E j \in 1..Len(result_chunks[c].doc_items) :
            result_chunks[c].doc_items[j].self_ref = PackerInput[s].items[1].self_ref}

\* C4: a section whose own rendered text exceeds max_tokens is emitted as at
\* least two chunks, each within max_tokens except possibly the last; never
\* as one chunk.
C4_OversizedSplit ==
    pc = "done" =>
        \A s \in 1..Len(PackerInput) :
            count_tokens(PackerInput[s].text) > max_tokens =>
                /\ Cardinality(ChunksOf(s)) >= 2
                /\ \A c \in ChunksOf(s) :
                      c # MaxOf(ChunksOf(s)) =>
                          count_tokens(result_chunks[c].text) <= max_tokens

\* ----------------------------------------------------------------------- C5
\* a section of exactly one item, a heading whose text is shorter than the limit
LoneShortHeading(sec) ==
    /\ Len(sec.items) = 1
    /\ IsHeading(sec.items[1])
    /\ Len(sec.items[1].text) < OrphanTextLimit

\* after is before with section i folded into section i + 1: items, snapshots
\* and texts concatenated in order, every other section as it was
FoldedAt(before, after, i) ==
    /\ Len(after) = Len(before) - 1
    /\ after[i].items = before[i].items \o before[i + 1].items
    /\ after[i].header_infos = before[i].header_infos \o before[i + 1].header_infos
    /\ after[i].header_short_infos =
           before[i].header_short_infos \o before[i + 1].header_short_infos
    /\ after[i].text = before[i].text \o NL \o before[i + 1].text
    /\ \A j \in 1..Len(after) :
          j # i => after[j] = before[IF j < i THEN j ELSE j + 1]

C6_OrphanEligibility ==
    (pc = "orphan" \/ (pc = "pack" /\ pack_k = 1)) =>
        \A j \in 1..Len(sections_with_text) :
            \A q \in 2..Len(sections_with_text[j].items) :
                IsHeading(sections_with_text[j].items[q]) =>
                    /\ IsHeading(sections_with_text[j].items[q - 1])
                    /\ Len(sections_with_text[j].items[q - 1].text) < OrphanTextLimit

\* ----------------------------------------------------------------------- C7
\* C7: the merger applied to its own output changes nothing: same sections,
\* same items, same snapshots, same texts.
C7_MergeIdempotent ==
    (pc = "pack" /\ pack_k = 1) =>
        merge_lone_headings(sections_with_text) = sections_with_text

\* a chain: two lone headings in a row were folded into the section after them
C7_Witness ==
    /\ pc = "pack"
    /\ pack_k = 1
    /\ \E j \in 1..Len(sections_with_text) :
          /\ Len(sections_with_text[j].items) >= 3
          /\ \A q \in 1..3 : IsHeading(sections_with_text[j].items[q])

\* ----------------------------------------------------------------------- C8
\* C8: the segmenter's sections are non-empty, their items concatenated in
\* order are the flattened sequence (and so are their snapshots), a heading
\* is always the first item of its section, and only the first section may
\* start with an item that is not a heading.
C8_Segmenter ==
    pc = "render" =>
        /\ \A k \in 1..Len(sections) : sections[k].items # << >>
        /\ ConcatUpTo([k \in 1..Len(sections) |-> sections[k].items],
                      Len(sections)) = all_items
        /\ ConcatUpTo([k \in 1..Len(sections) |-> sections[k].header_infos],
                      Len(sections)) = all_header_info
        /\ ConcatUpTo([k \in 1..Len(sections) |-> sections[k].header_short_infos],
                      Len(sections)) = all_header_short_info
        /\ \A k \in 1..Len(sections) :
              /\ \A j \in 2..Len(sections[k].items) : ~IsHeading(sections[k].items[j])
              /\ k > 1 => IsHeading(sections[k].items[1])

\* a leading section without heading, then a title's and a section header's
C8_Witness ==
    /\ pc = "render"
    /\ Len(sections) >= 3
    /\ ~IsHeading(sections[1].items[1])
    /\ \E k \in 1..Len(sections) : sections[k].items[1].kind = "title"
    /\ \E k \in 1..Len(sections) : sections[k].items[1].kind = "section_header"

\* ----------------------------------------------------------------------- C9
\* every heading level a document can hold
Levels == {Palette[p].level : p \in 1..Len(Palette)}

\* two snapshots agree at level L: both lack it, or both hold the same text
AgreeAt(a, b, L) ==
    /\ (L \in DOMAIN a) = (L \in DOMAIN b)
    /\ L \in DOMAIN a => a[L] = b[L]

\* a heading of level <= L among items lo..hi of the flattened list
HeadingWithin(lo, hi, L) ==
    \E j \in lo..hi : IsHeading(all_items[j]) /\ LevelOf(all_items[j]) <= L

\* the snapshot of a heading of level L holds L (its own text) and nothing deeper
HeadingSnapshots ==
    \A j \in 1..Len(all_items) :
        IsHeading(all_items[j]) =>
            /\ LevelOf(all_items[j]) \in DOMAIN all_header_info[j]
            /\ all_header_info[j][LevelOf(all_items[j])] = all_items[j].text
            /\ \A l \in DOMAIN all_header_info[j] : l <= LevelOf(all_items[j])
            /\ DOMAIN all_header_short_info[j] = DOMAIN all_header_info[j]
            /\ all_header_short_info[j][LevelOf(all_items[j])] = all_items[j].orig

\* a step leaves every item already in the list in it, with the snapshots it had
SnapshotsKept ==
    \A j \in 1..Len(all_items) :
        \E k \in 1..Len(all_items') :
            /\ all_items'[k] = all_items[j]
            /\ all_header_info'[k] = all_header_info[j]
            /\ all_header_short_info'[k] = all_header_short_info[j]

\* C9 as stated: for items A before B of the flattened output and a level L
\* with no heading of level <= L strictly between A and B, the snapshots of A
\* and B agree at L; a heading's snapshot holds its level and none deeper; no
\* attached snapshot is altered later.
C9_SnapshotsBetween ==
    /\ [](pc # "iterate" =>
            /\ \A a, b \in 1..Len(all_items) :
                  \A L \in Levels :
                      (a < b /\ ~HeadingWithin(a + 1, b - 1, L)) =>
                          /\ AgreeAt(all_header_info[a], all_header_info[b], L)
                          /\ AgreeAt(all_header_short_info[a],
                                     all_header_short_info[b], L)
            /\ HeadingSnapshots)
    /\ [][SnapshotsKept]_vars

\* C9 (amended): the same, the headings counted being those visited after A
\* up to and including B itself when B is a heading.
C9_SnapshotsUpTo ==
    /\ [](pc # "iterate" =>
            /\ \A a, b \in 1..Len(all_items) :
                  \A L \in Levels :
                      (a < b /\ ~HeadingWithin(a + 1, b, L)) =>
                          /\ AgreeAt(all_header_info[a], all_header_info[b], L)
                          /\ AgreeAt(all_header_short_info[a],
                                     all_header_short_info[b], L)
            /\ HeadingSnapshots)
    /\ [][SnapshotsKept]_vars

\* a deeper heading inherits the level above it from the item before, and a
\* later heading has put a deeper level out of scope
C9_Witness ==
    /\ pc = "segment"
    /\ \E a, b \in 1..Len(all_items) :
          /\ a < b
          /\ IsHeading(all_items[b])
          /\ \E L \in DOMAIN all_header_info[a] :
                /\ L < LevelOf(all_items[b])
                /\ AgreeAt(all_header_info[a], all_header_info[b], L)
    /\ \E a, b \in 1..Len(all_items) :
          /\ a < b
          /\ IsHeading(all_items[b])
          /\ \E L \in DOMAIN all_header_info[a] : L > LevelOf(all_items[b])

\* ---------------------------------------------------------------------- C10
\* the self_refs the traversal yielded
BodyRefs == {dl_doc.body[j].self_ref : j \in 1..Len(dl_doc.body)}

\* where the item of that self_ref stands in the flattened list
PlacesOf(ref) == {j \in 1..Len(all_items) : all_items[j].self_ref = ref}

\* C10: the item list and the two snapshot lists always have the same length;
\* after flattening every table of dl_doc.tables stands exactly once in the
\* list, a table the traversal did not yield carries empty snapshots and
\* stands before every item the traversal yielded, and every heading still
\* has its own snapshot at its index.
C10_TableReconciliation ==
    /\ Len(all_header_info) = Len(all_items)
    /\ Len(all_header_short_info) = Len(all_items)
    /\ pc # "iterate" =>
          /\ \A t \in 1..Len(dl_doc.tables) :
                /\ Cardinality(PlacesOf(dl_doc.tables[t].self_ref)) = 1
                /\ \A j \in PlacesOf(dl_doc.tables[t].self_ref) :
                      all_items[j] = dl_doc.tables[t]
          /\ \A j \in 1..Len(all_items) :
                all_items[j].self_ref \notin BodyRefs =>
                    /\ DOMAIN all_header_info[j] = {}
                    /\ DOMAIN all_header_short_info[j] = {}
                    /\ \A k \in 1..Len(all_items) :
                          all_items[k].self_ref \in BodyRefs => j < k
          /\ HeadingSnapshots

\* a table the traversal missed, a table it yielded under a heading
C10_Witness ==
    /\ pc = "segment"
    /\ \E j \in 1..Len(all_items) :
          all_items[j].kind = "table" /\ all_items[j].self_ref \notin BodyRefs
    /\ \E j \in 1..Len(all_items) :
          /\ all_items[j].kind = "table"
          /\ all_items[j].self_ref \in BodyRefs
          /\ DOMAIN all_header_info[j] # {}

OwnChunksOn(p) ==
    {c \in 1..Len(chunks) :
        /\ chunks[c].doc_items[1].prov # << >>
        /\ chunks[c].doc_items[1].prov[1] = p}

\* C12: the vectors a call returns are those a fresh processor returns for the
\* same document; n_chunk_of_page of every vector is the number of the
\* document's own chunks whose first item lies on the vector's page, whatever
\* the processor served before.
C12_Independence ==
    call_pc = "returned" =>
        /\ vectors = compose_vectors(document, chunks,
                                     split_documents(document, NoCounts).counts).vectors
        /\ \A i \in 1..Len(vectors) :
              vectors[i].n_chunk_of_page = Cardinality(OwnChunksOn(vectors[i].i_page))

\* ---------------------------------------------------------------------- C13
\* the chunks of request r on page p
OwnChatChunksOn(r, p) ==
    {c \in 1..Len(chat_chunks[r]) : metadata_page(chat_chunks[r][c]) = p}

\* request q is between the start of its call and its end
InFlight(q) == chat_pc[q] \in {"loaded", "split"}

\* C13: when a request's call composes its vectors while another request is in
\* flight on the same processor, n_chunk_of_page of each of its vectors is the
\* number of its own chunks on that page: it includes no chunk counted for
\* the other request.
C13_NoCrossRequestRace ==
    [][ \A r, q \in Requests :
          (r # q /\ InFlight(q) /\ chat_pc[r] = "split" /\ chat_pc'[r] = "returned") =>
              \A i \in 1..Len(chat_vectors'[r]) :
                  chat_vectors'[r][i].n_chunk_of_page =
                      Cardinality(OwnChatChunksOn(r, chat_vectors'[r][i].i_page)) ]_vars

\* ---------------------------------------------------------------------- C14
\* C14: __call__ has a checkpoint before chunking and one after it: when the
\* client is disconnected as the call stands before split_documents or before
\* compose_vectors, the call raises there; it neither goes on to chunk nor
\* composes, and returns no vectors.
C14_Cancellation ==
    [][ (request_disconnected /\ call_pc \in {"loaded", "chunked"}) =>
            /\ call_pc' \notin {"chunked", "returned"}
            /\ vectors' = << >> ]_vars

\* ---------------------------------------------------------------------- C15
RECURSIVE BufferSum(_, _)
\* the tokenizer's count of the buffers it counted, plus the estimate
\* int(words * 1.3) of the buffers it failed on, over the first n calls
BufferSum(calls, n) ==
    IF n = 0 THEN 0
    ELSE BufferSum(calls, n - 1)
         + (IF calls[n].ok THEN Tokenize(calls[n].buf)
            ELSE (Words(calls[n].buf) * 13) \div 10)

RECURSIVE WordSum(_, _)
\* the words of the first n buffers
WordSum(calls, n) ==
    IF n = 0 THEN 0 ELSE WordSum(calls, n - 1) + Words(calls[n].buf)

\* C15: _count_tokens never raises, whatever buffers the tokenizer fails on;
\* it returns a non-negative integer, the sum over the buffers (which hold
\* every word of the text) of the tokenizer's count where it succeeds and of
\* the word-count estimate where it fails; it returns 0 for the empty text.
C15_TokenizerFailureContained ==
    /\ tok_pc # "raised"
    /\ tok_pc = "returned" =>
          /\ tok_total_tokens \in Nat
          /\ tok_total_tokens = BufferSum(tokenized, Len(tokenized))
          /\ WordSum(tokenized, Len(tokenized)) = Words(tok_text)
          /\ tok_text = << >> => tok_total_tokens = 0

\* a call returned after the tokenizer failed on one buffer, where the
\* estimate differs from the count, and succeeded on another
C15_Witness ==
    /\ tok_pc = "returned"
    /\ \E i, j \in 1..Len(tokenized) :
          /\ ~tokenized[i].ok
          /\ (Words(tokenized[i].buf) * 13) \div 10 # Tokenize(tokenized[i].buf)
          /\ tokenized[j].ok
          /\ Tokenize(tokenized[j].buf) > 0

\* ---------------------------------------------------------------------- C16
\* C16: every buffer _count_tokens hands to the tokenizer is at most 300
\* characters long.
C16_BufferCap ==
    \A i \in 1..Len(tokenized) : Len(tokenized[i].buf) <= 300

\* ---------------------------------------------------------------------- C17
\* seq without its empty entries and without the repetitions of an entry
FirstOccurrences(seq) ==
    LET keep == SortedSeq({i \in 1..Len(seq) :
                              /\ seq[i] # << >>
                              /\ \A j \in 1..(i - 1) : seq[j] # seq[i]})
    IN  [k \in 1..Len(keep) |-> seq[keep[k]]]

\* the short snapshot attached to the first item of the chunk, read in
\* ascending level order
FirstSnapshotHeaders(chunk) ==
    LET at == CHOOSE j \in 1..Len(all_items) :
                  all_items[j].self_ref = chunk.doc_items[1].self_ref
        levels == SortedSeq(DOMAIN all_header_short_info[at])
    IN  [k \in 1..Len(levels) |-> all_header_short_info[at][levels[k]]]

\* the headings that open the later sections of the chunk: its heading items
\* after the first item, as the short snapshots record them
LaterHeadings(chunk) ==
    LET hs == SelectSeq(SubSeq(chunk.doc_items, 2, Len(chunk.doc_items)), IsHeading)
    IN  [k \in 1..Len(hs) |-> hs[k].orig]

\* [Heading(L0, "Policy"), Paragraph, Heading(L1, "Scope"), Paragraph]
PolicyScope ==
    LET policy == << "P", "o", "l", "i", "c", "y" >>
        scope == << "S", "c", "o", "p", "e" >>
        para == << "w", " ", "w" >>
        b == << [self_ref |-> 1, kind |-> "title", level |-> 0, text |-> policy, orig |-> policy],
                [self_ref |-> 2, kind |-> "text", level |-> 0, text |-> para, orig |-> para],
                [self_ref |-> 3, kind |-> "section_header", level |-> 1, text |-> scope, orig |-> scope],
                [self_ref |-> 4, kind |-> "text", level |-> 0, text |-> para, orig |-> para] >>
    IN  [body |-> b, tables |-> << >>]

\* C17: the headings of a chunk hold no string twice and are, in first-seen
\* order, the headers of the snapshot of the chunk's first section in
\* ascending level order, then the heading of each later section of the
\* chunk; under the large budget the Policy/Scope document is segmented into
\* two sections and packed into one chunk of headings ["Policy", "Scope"].
C17_UsedHeaders ==
    pc = "done" =>
        /\ \A c \in ChunkIndexes :
              /\ \A i, j \in 1..Len(result_chunks[c].headings) :
                    i # j => result_chunks[c].headings[i] # result_chunks[c].headings[j]
              /\ result_chunks[c].headings =
                     FirstOccurrences(FirstSnapshotHeaders(result_chunks[c])
                                          \o LaterHeadings(result_chunks[c]))
        /\ max_tokens = MaxOf(TokenBudgets) =>
              LET all == hierarchical_chunk(PolicyScope)
                  cs == hybrid_chunk(PolicyScope)
              IN  /\ Len(segment(all.all_items, all.all_header_info,
                                 all.all_header_short_info)) = 2
                  /\ Len(cs) = 1
                  /\ cs[1].headings = << PolicyScope.body[1].orig, PolicyScope.body[3].orig >>

\* one chunk of a title's section (the title, a paragraph) and of the section
\* of a later section header, with the two headings
C17_Witness ==
    /\ pc = "done"
    /\ \E c \in ChunkIndexes :
          /\ Len(result_chunks[c].doc_items) = 3
          /\ result_chunks[c].doc_items[1].kind = "title"
          /\ result_chunks[c].doc_items[2].kind = "text"
          /\ result_chunks[c].doc_items[3].kind = "section_header"
          /\ Len(result_chunks[c].headings) = 2

\* ---------------------------------------------------------------------- C18
\* C18: while the packer runs and after it, the sections of the segmenter and
\* the sections the merger handed to the packer (item lists, snapshot lists,
\* texts) are what they were when packing started.
C18_StagePurity ==
    pc \in {"pack", "done"} =>
        /\ sections = segment(all_items, all_header_info, all_header_short_info)
        /\ sections_with_text = PackerInput

\* ---------------------------------------------------------------------- C19
\* some item of the document has no provenance record, or no text
Malformed(doc) ==
    \E i \in 1..Len(doc.body) : doc.body[i].prov = << >> \/ doc.body[i].text = << >>

\* C19: the call on a document with an item without provenance record or
\* without text does not raise, neither in chunking nor in the per-page
\* bookkeeping of split_documents and compose_vectors.
C19_MalformedItems ==
    (call_pc # "idle" /\ Malformed(document)) => call_pc # "raised"

\* ---------------------------------------------------------------------- C20
\* the texts of the items that have one, in item order
ItemTexts(items) ==
    LET texts == [j \in 1..Len(items) |-> items[j].text]
    IN  SelectSeq(texts, LAMBDA t : t # << >>)

RECURSIVE EntriesInOrder(_, _)
\* every text of texts is an entry of entries of its own, in the same order
EntriesInOrder(texts, entries) ==
    IF texts = << >> THEN TRUE
    ELSE IF entries = << >> THEN FALSE
    ELSE IF texts[1] = entries[1] THEN EntriesInOrder(Tail(texts), Tail(entries))
    ELSE EntriesInOrder(texts, Tail(entries))

\* C20: in the text rendered for a section, every item of the section with
\* non-empty text has an entry of its own between delimiters, holding its
\* text, and these entries stand in item order (so there are as many of them
\* as items with non-empty text).
C20_RenderingKeepsItems ==
    pc = "render" =>
        \A k \in 1..Len(sections) :
            EntriesInOrder(
                ItemTexts(sections[k].items),
                Split(generate_text_from_items_with_headers(
                          sections[k].items, sections[k].header_short_infos), "\n"))

\* ---------------------------------------------------------------------- C28
\* where the table of that self_ref stands in dl_doc.tables
RegistryPlace(ref) ==
    CHOOSE t \in 1..Len(dl_doc.tables) : dl_doc.tables[t].self_ref = ref

C25_MergedWithinBudget ==
    /\ [](pc = "pack" /\ Len(merged_texts) >= 2
              => count_tokens(Join(merged_texts, NL)) <= max_tokens)
    /\ [][ ( /\ pc = "pack"
             /\ Len(result_chunks') > Len(result_chunks)
             /\ Len(merged_texts) >= 2 )
           => LET c == result_chunks'[Len(result_chunks')]
              IN  /\ c.text = Join(merged_texts, NL)
                  /\ count_tokens(c.text) <= max_tokens ]_vars

\* the loop is over and two or more sections that fill the budget exactly are
\* accumulated: their chunk is emitted next
C25_Witness ==
    /\ pc = "pack"
    /\ pack_k > Len(sections_with_text)
    /\ Len(merged_texts) >= 2
    /\ count_tokens(Join(merged_texts, NL)) = max_tokens

\* ---------------------------------------------------------------------- C26
\* the heading level of a snapshot: its largest key, -1 when it is empty
SnapshotLevel(info) == IF DOMAIN info = {} THEN -1 ELSE MaxOf(DOMAIN info)

\* the levels of the snapshots never go down along the list
LevelsAscend(header_infos) ==
    \A a, b \in 1..Len(header_infos) :
        a < b => SnapshotLevel(header_infos[a]) <= SnapshotLevel(header_infos[b])

\* C26: in every section the orphan merger hands to the packer, and in the
\* packer's accumulator at every step, the snapshot levels are non-decreasing
\* in item order, and the level read from the last accumulated snapshot is the
\* deepest level of the accumulator.
C26_LevelsAscend ==
    /\ (pc = "pack" /\ pack_k = 1) =>
          \A k \in 1..Len(sections_with_text) :
              LevelsAscend(sections_with_text[k].header_infos)
    /\ pc = "pack" =>
          /\ LevelsAscend(merged_header_infos)
          /\ \A a \in 1..Len(merged_header_infos) :
                SnapshotLevel(merged_header_infos[a])
                    <= get_header_level(merged_header_infos, FALSE)

\* the accumulator holds a section the merger folded from a lone heading and a
\* deeper section, behind a shallower first section: three rising levels
C26_Witness ==
    /\ pc = "pack"
    /\ Len(merged_texts) = 2
    /\ \E k \in 1..Len(sections_with_text) :
          /\ Len(sections_with_text[k].header_infos) >= 2
          /\ SnapshotLevel(sections_with_text[k].header_infos[1])
                 < SnapshotLevel(sections_with_text[k].header_infos[2])
    /\ Len(merged_header_infos) = 3
    /\ SnapshotLevel(merged_header_infos[1]) < SnapshotLevel(merged_header_infos[2])
    /\ SnapshotLevel(merged_header_infos[2]) < SnapshotLevel(merged_header_infos[3])

\* ---------------------------------------------------------------------- C29
\* C29: every vector a call of the document agent returns (image files
\* included) has 0 <= i_chunk_on_doc < n_chunk_of_doc and
\* 0 <= i_chunk_on_page < n_chunk_of_page, and i_chunk_on_doc is its position
\* in the returned list, counted from 0.
C29_IndexBounds ==
    ocr_pc = "returned" =>
        \A v \in 1..Len(ocr_vectors) :
            /\ 0 <= ocr_vectors[v].i_chunk_on_doc
            /\ ocr_vectors[v].i_chunk_on_doc < ocr_vectors[v].n_chunk_of_doc
            /\ 0 <= ocr_vectors[v].i_chunk_on_page
            /\ ocr_vectors[v].i_chunk_on_page < ocr_vectors[v].n_chunk_of_page
            /\ ocr_vectors[v].i_chunk_on_doc = v - 1

\* ---------------------------------------------------------------------- C30
\* the chunk HierarchicalChunker.chunk emitted for one heading
IsHeadingChunk(chunk) ==
    /\ Len(chunk.doc_items) = 1
    /\ chunk.doc_items[1].kind \in {"title", "section_header"}

\* C30: among the chunks HierarchicalChunker.chunk yields (chat agent), the
\* text of a heading's chunk is the concatenation of the headings of its
\* metadata, in ascending level order, and nothing else.
C30_HeadingChunkText ==
    first_pc = "inner" =>
        \A c \in 1..Len(first_res) :
            IsHeadingChunk(first_res[c]) =>
                first_res[c].text = Join(first_res[c].headings, << >>)

\* ---------------------------------------------------------------------- C23
\* the DocItems of the document, in order (a group node is not one)
FirstItems == SelectSeq(first_doc, LAMBDA it : it.kind # "group")

IsListItem(it) == it.kind = "list_item"

\* FirstItems[a..b] is a maximal run of consecutive list items
IsRun(a, b) ==
    /\ a <= b
    /\ \A j \in a..b : IsListItem(FirstItems[j])
    /\ a = 1 \/ ~IsListItem(FirstItems[a - 1])
    /\ b = Len(FirstItems) \/ ~IsListItem(FirstItems[b + 1])

\* the chunks of the inner chunker that hold the item of that self_ref
ChunksHolding(ref) ==
    {c \in 1..Len(first_res) :
        \E j \in 1..Len(first_res[c].doc_items) : first_res[c].doc_items[j].self_ref = ref}

\* the headings in scope after the first n items: every heading not followed,
\* up to item n, by a heading of its level or a shallower one; by level
ScopeHeadings(n) ==
    LET live == {i \in 1..n :
                    /\ IsHeading(FirstItems[i])
                    /\ ~\E k \in (i + 1)..n :
                          /\ IsHeading(FirstItems[k])
                          /\ LevelOf(FirstItems[k]) <= LevelOf(FirstItems[i])}
        levels == SortedSeq({LevelOf(FirstItems[i]) : i \in live})
    IN  [j \in 1..Len(levels) |->
            FirstItems[CHOOSE i \in live : LevelOf(FirstItems[i]) = levels[j]].text]

\* C23: with merge_list_items, HierarchicalChunker.chunk (chat agent) yields
\* for every maximal run of consecutive list items exactly one chunk; its
\* doc_items are the run in order, no other chunk holds an item of the run, its
\* headings are those in scope where the run ends, it comes after the chunks
\* of the items before the run and before those of the items after it, and it
\* is the last chunk when the run ends the document.
C23_ListRuns ==
    (first_pc = "by_items" /\ first_merge_list_items) =>
        \A a, b \in 1..Len(FirstItems) :
            IsRun(a, b) =>
                \E c \in 1..Len(first_res) :
                    /\ first_res[c].doc_items = SubSeq(FirstItems, a, b)
                    /\ first_res[c].text =
                           Join([j \in 1..(b - a + 1) |-> FirstItems[a + j - 1].text], NL)
                    /\ first_res[c].headings = ScopeHeadings(b)
                    /\ \A j \in a..b : ChunksHolding(FirstItems[j].self_ref) = {c}
                    /\ \A j \in 1..(a - 1) :
                          \A c2 \in ChunksHolding(FirstItems[j].self_ref) : c2 < c
                    /\ \A j \in (b + 1)..Len(FirstItems) :
                          \A c2 \in ChunksHolding(FirstItems[j].self_ref) : c < c2
                    /\ b = Len(FirstItems) => c = Len(first_res)

\* a run of two list items has been emitted as one chunk, ahead of the chunk
\* of the paragraph that ended it
C23_Witness ==
    /\ first_pc = "by_items"
    /\ first_merge_list_items
    /\ Len(FirstItems) = 3
    /\ IsRun(1, 2)
    /\ FirstItems[3].kind = "text"
    /\ Len(first_res) = 2
    /\ Len(first_res[1].doc_items) = 2

\* ---------------------------------------------------------------------- C21
\* the characters of a text that are not white space, in order
Letters(s) == SelectSeq(s, LAMBDA ch : ~IsSpace(ch))

\* the chunk _split_using_plain_text is called with at this step and what the
\* call adds to the result
PlainParent == first_res[split_i]
PlainOut == SubSeq(next_res', Len(next_res) + 1, Len(next_res'))
PlainTotal == Tokenize(serialize(PlainParent))
PlainAvailable == first_max_tokens - (PlainTotal - Tokenize(PlainParent.text))

\* C21: _split_using_plain_text (chat agent) returns a chunk that fits the
\* budget unchanged and alone; returns no chunk for one over the budget whose
\* headings and captions leave no room for text; and otherwise returns one or
\* more chunks that carry the doc_items, headings and captions of the chunk
\* and whose texts hold its words in order.
C21_PlainSplit ==
    [][(first_pc = "plain" /\ split_i' = split_i + 1) =>
          /\ PlainTotal <= first_max_tokens => PlainOut = << PlainParent >>
          /\ (PlainTotal > first_max_tokens /\ PlainAvailable <= 0) => PlainOut = << >>
          /\ (PlainTotal > first_max_tokens /\ PlainAvailable > 0) =>
                /\ Len(PlainOut) >= 1
                /\ \A j \in 1..Len(PlainOut) :
                      /\ PlainOut[j].doc_items = PlainParent.doc_items
                      /\ PlainOut[j].headings = PlainParent.headings
                      /\ PlainOut[j].captions = PlainParent.captions
                /\ ConcatUpTo([j \in 1..Len(PlainOut) |-> Letters(PlainOut[j].text)],
                              Len(PlainOut))
                       = Letters(PlainParent.text)]_vars

\* all three cases have happened in one call of chunk(): one chunk was kept,
\* one was split in two and one was dropped
C21_Witness ==
    /\ first_pc = "plain"
    /\ split_i > Len(first_res)
    /\ \E i \in 1..Len(first_res) : count_chunk_tokens(first_res[i]) <= first_max_tokens
    /\ \E i \in 1..Len(first_res) :
          /\ count_chunk_tokens(first_res[i]) > first_max_tokens
          /\ doc_chunk_length(first_res[i]).other_len >= first_max_tokens
          /\ \A c \in 1..Len(next_res) : next_res[c].doc_items # first_res[i].doc_items
    /\ \E c1, c2 \in 1..Len(next_res) :
          /\ c1 < c2
          /\ next_res[c1].doc_items = next_res[c2].doc_items
          /\ \E i \in 1..Len(first_res) :
                /\ first_res[i].doc_items = next_res[c1].doc_items
                /\ count_chunk_tokens(first_res[i]) > first_max_tokens

\* ---------------------------------------------------------------------- C27
\* _split_by_doc_items is at work on first_res[split_i]
SplittingItems == first_pc = "by_items" /\ split_i <= Len(first_res)

\* the items the windows appended so far have to account for
ItemsWindowed ==
    LET items == first_res[split_i].doc_items
    IN  IF window_end >= Len(items) THEN items ELSE SubSeq(items, 1, window_start)

\* C27: in _split_by_doc_items (chat agent) the windows appended so far are
\* non-empty and, one after the other, hold exactly the items of the chunk up
\* to the start of the current window (all of them once the loop has ended),
\* each once and in order; a window of more than one item counts at most
\* max_tokens, so only a single item makes a window over the budget; and
\* every iteration of the loop moves window_end forward, or window_start with
\* window_end in place, within the number of items, so the loop terminates.
C27_ItemWindows ==
    /\ [](SplittingItems =>
             /\ all_doc_items(split_chunks) = ItemsWindowed
             /\ \A w \in 1..Len(split_chunks) :
                   /\ split_chunks[w].doc_items # << >>
                   /\ Len(split_chunks[w].doc_items) > 1 =>
                         Tokenize(serialize(split_chunks[w])) <= first_max_tokens)
    /\ [][(SplittingItems /\ split_i' = split_i /\ first_pc' = first_pc) =>
             /\ \/ window_end' > window_end
                \/ window_end' = window_end /\ window_start' > window_start
             /\ window_start' <= window_end'
             /\ window_end' <= Len(first_res[split_i].doc_items)]_vars

\* the loop has ended on a chunk of three items that it cut into a window of
\* two items and a window of one
C27_Witness ==
    /\ SplittingItems
    /\ Len(first_res[split_i].doc_items) = 3
    /\ window_end >= 3
    /\ Len(split_chunks) = 2
    /\ Len(split_chunks[1].doc_items) = 2

\* ---------------------------------------------------------------------- C24
\* the chunks of the input that the output chunk appended at this step stands for
MergedInputs == SubSeq(first_res, window_start + 1, window_start')

\* the output chunk appended at this step
MergedOutput == output_chunks'[Len(output_chunks')]

\* C24: in _merge_chunks_with_matching_metadata (chat agent) every output
\* chunk stands for the next one or more input chunks in a row; one input is
\* passed on as it is; two or more are combined only when all have the
\* headings and captions of the first and the combined chunk (texts joined by
\* the delimiter, doc_items concatenated) counts at most max_tokens; the
\* doc_items of the output chunks, concatenated, are those of the input chunks
\* up to the start of the current window, hence of all of them when the loop
\* has ended; and every iteration moves window_end forward, or window_start
\* with window_end in place, within the number of chunks, so the loop ends.
C24_PeerMerge ==
    /\ [](first_pc = "merge" =>
             /\ all_doc_items(output_chunks) =
                    all_doc_items(SubSeq(first_res, 1, window_start))
             /\ window_end >= Len(first_res) => window_start = Len(first_res))
    /\ [][(first_pc = "merge" /\ first_pc' = "merge") =>
             /\ \/ window_end' > window_end
                \/ window_end' = window_end /\ window_start' > window_start
             /\ window_start' <= window_end'
             /\ window_end' <= Len(first_res)
             /\ output_chunks' # output_chunks =>
                   /\ Len(output_chunks') = Len(output_chunks) + 1
                   /\ window_start' > window_start
                   /\ Len(MergedInputs) = 1 => MergedOutput = MergedInputs[1]
                   /\ Len(MergedInputs) > 1 =>
                         /\ \A j \in 1..Len(MergedInputs) :
                               /\ MergedInputs[j].headings = MergedInputs[1].headings
                               /\ MergedInputs[j].captions = MergedInputs[1].captions
                         /\ MergedOutput.headings = MergedInputs[1].headings
                         /\ MergedOutput.captions = MergedInputs[1].captions
                         /\ MergedOutput.doc_items = all_doc_items(MergedInputs)
                         /\ MergedOutput.text =
                                Join([j \in 1..Len(MergedInputs) |-> MergedInputs[j].text], NL)
                         /\ Tokenize(serialize(MergedOutput)) <= first_max_tokens]_vars

\* the loop has ended on three chunks with the same headings and captions:
\* the first two were combined, the third did not fit with them
C24_Witness ==
    /\ first_pc = "merge"
    /\ Len(first_res) = 3
    /\ window_end >= 3
    /\ \A j \in 1..3 : headings_and_captions(first_res[j]) = headings_and_captions(first_res[1])
    /\ Len(output_chunks) = 2
    /\ output_chunks[1].doc_items = first_res[1].doc_items \o first_res[2].doc_items
    /\ output_chunks[2] = first_res[3]
====
